---- MODULE Spec2Model ----
(***************************************************************************)
(* Content directory runtime module (runtime-modules/content-directory):   *)
(* classes, schemas, entities, the two inbound reference counters, entity  *)
(* creation vouchers, ownership transfer and the batch `transaction`.      *)
(*                                                                         *)
(* Unsigned machine integers (ReferenceCounter = u32, T::EntityId) are     *)
(* written as the representative of their residue that lies closest to     *)
(* zero: a negative number n stands for 2^w + n, the value a wrapping      *)
(* subtraction below zero leaves behind.  ULess compares two such numbers  *)
(* as the unsigned numbers they stand for.  A build with overflow checks   *)
(* panics instead of wrapping; the panic leaves no new state, which the    *)
(* stuttering step of every specification already covers.                  *)
(***************************************************************************)
EXTENDS Integers, Sequences, FiniteSets, TLC

VARIABLES CuratorGroupById, ClassById, EntityById, NextCuratorGroupId,
          NextClassId, NextEntityId, EntityCreationVouchers, last_call

vars == <<CuratorGroupById, ClassById, EntityById, NextCuratorGroupId,
          NextClassId, NextEntityId, EntityCreationVouchers, last_call>>

\* ------------------------------------------------------------------ bounds

\* Entity ids a run may issue (create_entity is not offered beyond it).
MaxEntityId == 2

\* The same, where ownership transfer walks chains of references.
MaxWalkEntityId == 3

\* A call is followed while every reference counter and vector nonce it leaves
\* is at most this far from zero, and every class counter at most this far
\* below zero.
MaxCounter == 1

\* Longest batch handed to `transaction`.
MaxOps == 2

\* Largest entity creation limit of a genesis class or a voucher update.
MaxLimit == 3

\* Where a voucher is used up: the entity ids a run may issue, and the largest
\* maximum a voucher update names.
MaxCeilingEntityId == 5

\* Where vectors of references are stored: the entity ids a run may issue, and
\* the counters and nonces a call may leave, as MaxCounter.
MaxVectorEntityId == 1

MaxVectorCounter == 2

\* Where two entities hold vectors of references to each other.
MaxPairEntityId == 2

\* Where curator groups and classes are added: the ids a run may issue, the
\* schemas a class may come to hold, and how far from zero a call may leave
\* the count of the classes a group maintains.
MaxCuratorGroupId == 2

MaxClassId == 3

MaxRegistryEntityId == 2

\* Where ids are issued in all three namespaces: the class ids a run may issue.
MaxIssuedClassId == 4

MaxSchemas == 3

MaxMaintained == 1

\* Where every extrinsic is applied to every state: the curator groups a run
\* may add.
MaxExtrinsicsGroupId == 1

\* ------------------------------------------------------ configuration

\* T::MaxNumberOfOperationsDuringAtomicBatching
MaxNumberOfOperationsDuringAtomicBatching == 2

\* T::MaxNumberOfEntitiesPerClass
MaxNumberOfEntitiesPerClass == 10

\* T::IndividualEntitiesCreationLimit
IndividualEntitiesCreationLimit == 10

\* T::MaxNumberOfClasses
MaxNumberOfClasses == 1

\* T::MaxNumberOfMaintainersPerClass
MaxNumberOfMaintainersPerClass == 2

\* T::MaxNumberOfCuratorsPerGroup
MaxNumberOfCuratorsPerGroup == 1

\* T::NumberOfSchemasPerClass
NumberOfSchemasPerClass == 0

\* T::MaxNumberOfPropertiesPerClass
MaxNumberOfPropertiesPerClass == 2

\* T::VecMaxLengthConstraint
VecMaxLengthConstraint == 2

\* T::ClassNameLengthConstraint
ClassNameLengthConstraint == [min |-> 1, max_min_diff |-> 1]

\* T::ClassDescriptionLengthConstraint
ClassDescriptionLengthConstraint == [min |-> 0, max_min_diff |-> 1]

\* T::PropertyNameLengthConstraint
PropertyNameLengthConstraint == [min |-> 1, max_min_diff |-> 7]

\* T::PropertyDescriptionLengthConstraint
PropertyDescriptionLengthConstraint == [min |-> 0, max_min_diff |-> 1]

\* ------------------------------------------------------- machine integers

\* a < b on the unsigned numbers a and b stand for
ULess(a, b) == IF (a < 0) = (b < 0) THEN a < b ELSE b < 0

WrappingAdd(a, b) == a + b

WrappingSub(a, b) == a - b

\* ------------------------------------------------------------ principals

Lead == <<"Lead", 0>>

Member(member_id) == <<"Member", member_id>>

Curator(curator_group_id, curator_id) == <<"Curator", curator_group_id, curator_id>>

Maintainers(curator_group_id) == <<"Maintainers", curator_group_id>>

\* EntityController::from_actor
from_actor(actor) ==
    IF actor[1] = "Curator" THEN Maintainers(actor[2]) ELSE actor

\* EntityController::default()
DefaultController == Lead

\* --------------------------------------------------------- property values

Bool(b) == [kind |-> "Single", t |-> "Bool", v |-> b, vec |-> <<>>, nonce |-> 0]

Reference(entity_id) ==
    [kind |-> "Single", t |-> "Reference", v |-> entity_id, vec |-> <<>>, nonce |-> 0]

ReferenceVec(entity_ids, nonce) ==
    [kind |-> "Vector", t |-> "Reference", v |-> 0, vec |-> entity_ids, nonce |-> nonce]

\* PropertyValue::default()
DefaultPropertyValue == Bool(0)

\* SinglePropertyValue / Value::get_involved_entity
has_involved_entity(value) == value.kind = "Single" /\ value.t = "Reference"

\* PropertyValue::get_involved_entities is Some(..)
has_involved_entities(value) == value.t = "Reference"

\* PropertyValue::get_involved_entities, the ids in order
get_involved_entities(value) ==
    IF value.t # "Reference" THEN <<>>
    ELSE IF value.kind = "Single" THEN <<value.v>> ELSE value.vec

\* equality of property values: a vector's nonce is not part of its value
ValueEq(a, b) == [a EXCEPT !.nonce = 0] = [b EXCEPT !.nonce = 0]

\* -------------------------------------------------------------- schema

SingleRefType(class_id, same_controller) ==
    [is_vec |-> FALSE, inner |-> "Reference", class_id |-> class_id,
     same_controller |-> same_controller, max_len |-> 0]

VecRefType(class_id, same_controller, max_len) ==
    [is_vec |-> TRUE, inner |-> "Reference", class_id |-> class_id,
     same_controller |-> same_controller, max_len |-> max_len]

BoolType ==
    [is_vec |-> FALSE, inner |-> "Bool", class_id |-> 0,
     same_controller |-> FALSE, max_len |-> 0]

\* Type::same_controller_status
same_controller_status(prop_type) ==
    prop_type.inner = "Reference" /\ prop_type.same_controller

Property(name, prop_type, required, unique) ==
    [name |-> name, description |-> "", prop_type |-> prop_type, required |-> required,
     unique |-> unique, locked_from_maintainer |-> FALSE, locked_from_controller |-> FALSE]

Schema(properties, is_active) == [properties |-> properties, is_active |-> is_active]

ClassPermissions(any_member, maintainers) ==
    [any_member |-> any_member, entity_creation_blocked |-> FALSE,
     all_entity_property_values_locked |-> FALSE, maintainers |-> maintainers]

\* Class::new, then the properties and schemas add_class_schema stored
Class(class_permissions, properties, schemas, maximum_entities_count, per_controller_entity_creation_limit) ==
    [class_permissions |-> class_permissions,
     name |-> "", description |-> "",
     properties |-> properties,
     schemas |-> schemas,
     maximum_entities_count |-> maximum_entities_count,
     current_number_of_entities |-> 0,
     per_controller_entity_creation_limit |-> per_controller_entity_creation_limit]

\* Class::default()
DefaultClass == Class(ClassPermissions(FALSE, {}), <<>>, <<>>, 0, 0)

\* Entity::new
NewEntity(controller, class_id) ==
    [controller |-> controller, frozen |-> FALSE, referenceable |-> TRUE,
     class_id |-> class_id, supported_schemas |-> {},
     values |-> << >>,
     reference_count |-> 0,
     inbound_same_owner_references_from_other_entities_count |-> 0]

\* Entity::default()
DefaultEntity == NewEntity(DefaultController, 0)

\* EntityCreationVoucher::new
NewVoucher(maximum_entities_count) ==
    [maximum_entities_count |-> maximum_entities_count, entities_created |-> 0]

\* ------------------------------------------------------------- storage

\* The storage items as one value, so that a handler is a function of it.
Storage ==
    [CuratorGroupById |-> CuratorGroupById, ClassById |-> ClassById,
     EntityById |-> EntityById, NextCuratorGroupId |-> NextCuratorGroupId,
     NextClassId |-> NextClassId, NextEntityId |-> NextEntityId,
     EntityCreationVouchers |-> EntityCreationVouchers]

\* <Map>::get: the stored value, or the type's default under a missing key
StorageGet(map, key, default) == IF key \in DOMAIN map THEN map[key] ELSE default

\* <Map>::insert
StorageInsert(map, key, value) ==
    [k \in DOMAIN map \cup {key} |-> IF k = key THEN value ELSE map[k]]

\* <Map>::remove
StorageRemove(map, key) == [k \in DOMAIN map \ {key} |-> map[k]]

\* Self::entity_by_id
entity_by_id(s, entity_id) == StorageGet(s.EntityById, entity_id, DefaultEntity)

\* Self::class_by_id
class_by_id(s, class_id) == StorageGet(s.ClassById, class_id, DefaultClass)

Ok == "Ok"

\* A handler's outcome: the storage it leaves, Ok or the error returned, and
\* the events it deposited.
Return(s, err) == [s |-> s, err |-> err, events |-> <<>>]

\* Self::deposit_event(..); Ok(())
Deposit(s, event) == [s |-> s, err |-> Ok, events |-> <<event>>]

ensure(cond, err) == IF cond THEN Ok ELSE err

\* ---------------------------------------------------------- permissions

\* ensure_is_lead: the origin is the account of the lead
ensure_is_lead(origin) == ensure(origin = Lead, "AccessDenied")

\* ClassPermissions::ensure_entity_creation_not_blocked
ensure_entity_creation_not_blocked(class_permissions) ==
    ensure(~class_permissions.entity_creation_blocked, "EntityCreationBlocked")

\* perform_curator_in_group_auth: the group is stored and active, the curator in it
curator_in_group(s, actor) ==
    /\ actor[2] \in DOMAIN s.CuratorGroupById
    /\ s.CuratorGroupById[actor[2]].active
    /\ actor[3] \in s.CuratorGroupById[actor[2]].curators

\* ClassPermissions::ensure_can_create_entities: the lead, a member when
\* any_member is set, a curator of a maintainer group
ensure_can_create_entities(s, class_permissions, actor) ==
    ensure(\/ actor[1] = "Lead"
           \/ actor[1] = "Member" /\ class_permissions.any_member
           \/ /\ actor[1] = "Curator"
              /\ actor[2] \in class_permissions.maintainers
              /\ curator_in_group(s, actor),
           "AccessDenied")

\* EntityAccessLevel::derive: Ok with the level, or the error
derive(s, entity, class, actor) ==
    LET is_controller == entity.controller = from_actor(actor)
        is_maintainer == /\ actor[1] = "Curator"
                         /\ actor[2] \in class.class_permissions.maintainers
        authentic == actor[1] = "Curator" => curator_in_group(s, actor)
    IN  IF ~authentic THEN [err |-> "AccessDenied", level |-> "None"]
        ELSE IF is_controller /\ entity.frozen
             THEN [err |-> "EntityFrozen", level |-> "None"]
        ELSE IF is_controller THEN [err |-> Ok, level |-> "EntityController"]
        ELSE IF is_maintainer THEN [err |-> Ok, level |-> "EntityMaintainer"]
        ELSE [err |-> "AccessDenied", level |-> "None"]

\* EntityPermissions::ensure_group_can_remove_entity
ensure_group_can_remove_entity(access_level) ==
    ensure(access_level = "EntityController", "AccessDenied")

\* Property::is_locked_from
is_locked_from(class_prop, access_level) ==
    \/ access_level = "EntityController" /\ class_prop.locked_from_controller
    \/ access_level = "EntityMaintainer" /\ class_prop.locked_from_maintainer

\* --------------------------------------------------------------- vouchers

\* EntityCreationVoucher::limit_not_reached
limit_not_reached(voucher) ==
    ULess(voucher.entities_created, voucher.maximum_entities_count)

\* EntityCreationVoucher::ensure_new_max_entities_count_is_valid
ensure_new_max_entities_count_is_valid(voucher, maximum_entities_count) ==
    ensure(~ULess(maximum_entities_count, voucher.entities_created),
           "NewMaxEntitiesCountLessThanCreated")

\* EntityCreationVoucher::increment_created_entities_count
increment_created_entities_count(voucher) ==
    [voucher EXCEPT !.entities_created = WrappingAdd(@, 1)]

\* the check of the voucher before an entity is created, left out
ensure_voucher_limit_not_reached_skipped(voucher) == Ok

ensure_voucher_limit_not_reached(voucher) ==
    ensure(limit_not_reached(voucher), "ERROR_VOUCHER_LIMIT_REACHED")

\* the check of a voucher's new maximum against the class limit, left out
ensure_valid_number_of_class_entities_per_actor_skipped(per_controller_entity_creation_limit, maximum_entities_count) == Ok

ensure_valid_number_of_class_entities_per_actor(per_controller_entity_creation_limit, maximum_entities_count) ==
    ensure(~ULess(per_controller_entity_creation_limit, maximum_entities_count),
           "ERROR_INDIVIDUAL_NUMBER_OF_CLASS_ENTITIES_PER_ACTOR_IS_TOO_BIG")

ensure_valid_number_of_entities_per_class(maximum_entities_count) ==
    ensure(ULess(maximum_entities_count, MaxNumberOfEntitiesPerClass),
           "ERROR_ENTITIES_NUMBER_PER_CLASS_CONSTRAINT_VIOLATED")

ensure_valid_number_of_class_entities_per_actor_constraint(per_controller_entity_creation_limit) ==
    ensure(ULess(per_controller_entity_creation_limit, IndividualEntitiesCreationLimit),
           "ERROR_NUMBER_OF_CLASS_ENTITIES_PER_ACTOR_CONSTRAINT_VIOLATED")

ensure_entities_creation_limits_are_valid(maximum_entities_count, per_controller_entities_creation_limit) ==
    IF ~ULess(per_controller_entities_creation_limit, maximum_entities_count)
    THEN "ERROR_PER_CONTROLLER_ENTITIES_CREATION_LIMIT_EXCEEDS_OVERALL_LIMIT"
    ELSE IF ensure_valid_number_of_entities_per_class(maximum_entities_count) # Ok
         THEN ensure_valid_number_of_entities_per_class(maximum_entities_count)
    ELSE ensure_valid_number_of_class_entities_per_actor_constraint(
             per_controller_entities_creation_limit)

ensure_known_class_id(s, class_id) ==
    ensure(class_id \in DOMAIN s.ClassById, "ERROR_CLASS_NOT_FOUND")

ensure_known_entity_id(s, entity_id) ==
    ensure(entity_id \in DOMAIN s.EntityById, "ERROR_ENTITY_NOT_FOUND")

update_entity_creation_voucher(s, origin, class_id, controller, maximum_entities_count) ==
    LET class == class_by_id(s, class_id)
        key == <<class_id, controller>>
        voucher_exists == key \in DOMAIN s.EntityCreationVouchers
        err == IF ensure_is_lead(origin) # Ok THEN ensure_is_lead(origin)
               ELSE IF ensure_known_class_id(s, class_id) # Ok
                    THEN ensure_known_class_id(s, class_id)
               ELSE IF /\ voucher_exists
                       /\ ensure_new_max_entities_count_is_valid(
                              s.EntityCreationVouchers[key], maximum_entities_count) # Ok
                    THEN ensure_new_max_entities_count_is_valid(
                              s.EntityCreationVouchers[key], maximum_entities_count)
               ELSE ensure_valid_number_of_class_entities_per_actor(
                        class.per_controller_entity_creation_limit, maximum_entities_count)
    IN  IF err # Ok THEN Return(s, err)
        ELSE IF voucher_exists
             THEN Deposit([s EXCEPT !.EntityCreationVouchers[key].maximum_entities_count =
                                        maximum_entities_count],
                          <<"EntityCreationVoucherUpdated", controller,
                            [s.EntityCreationVouchers[key] EXCEPT
                                !.maximum_entities_count = maximum_entities_count]>>)
        ELSE Deposit([s EXCEPT !.EntityCreationVouchers =
                         StorageInsert(@, key, NewVoucher(maximum_entities_count))],
                     <<"EntityCreationVoucherCreated", controller,
                       NewVoucher(maximum_entities_count)>>)

\* ------------------------------------------------------ entity lifecycle

\* Class::ensure_maximum_entities_count_limit_not_reached
ensure_maximum_entities_count_limit_not_reached(class) ==
    ensure(ULess(class.current_number_of_entities, class.maximum_entities_count),
           "ERROR_MAX_NUMBER_OF_ENTITIES_PER_CLASS_LIMIT_REACHED")

\* Class::increment_entities_count
increment_entities_count(class) ==
    [class EXCEPT !.current_number_of_entities = WrappingAdd(@, 1)]

\* Class::decrement_entities_count
decrement_entities_count(class) ==
    [class EXCEPT !.current_number_of_entities = WrappingSub(@, 1)]

create_entity(s, class_id, actor) ==
    LET class == class_by_id(s, class_id)
        class_permissions == class.class_permissions
        entity_controller == from_actor(actor)
        key == <<class_id, entity_controller>>
        voucher_exists == key \in DOMAIN s.EntityCreationVouchers
        err == IF ensure_known_class_id(s, class_id) # Ok
               THEN ensure_known_class_id(s, class_id)
               ELSE IF ensure_maximum_entities_count_limit_not_reached(class) # Ok
                    THEN ensure_maximum_entities_count_limit_not_reached(class)
               ELSE IF ensure_entity_creation_not_blocked(class_permissions) # Ok
                    THEN ensure_entity_creation_not_blocked(class_permissions)
               ELSE IF ensure_can_create_entities(s, class_permissions, actor) # Ok
                    THEN ensure_can_create_entities(s, class_permissions, actor)
               ELSE IF voucher_exists
                    THEN ensure_voucher_limit_not_reached(s.EntityCreationVouchers[key])
               ELSE Ok
        vouchers == IF voucher_exists
                    THEN [s.EntityCreationVouchers EXCEPT
                              ![key] = increment_created_entities_count(@)]
                    ELSE StorageInsert(s.EntityCreationVouchers, key,
                             increment_created_entities_count(
                                 NewVoucher(class.per_controller_entity_creation_limit)))
        entity_id == s.NextEntityId
    IN  IF err # Ok THEN Return(s, err)
        ELSE Deposit([s EXCEPT
                 !.EntityCreationVouchers = vouchers,
                 !.EntityById = StorageInsert(@, entity_id,
                                              NewEntity(entity_controller, class_id)),
                 !.NextEntityId = WrappingAdd(@, 1),
                 !.ClassById = StorageInsert(@, class_id,
                                   increment_entities_count(class_by_id(s, class_id)))],
               <<"EntityCreated", actor, entity_id>>)

\* Self::ensure_class_entity_and_access_level, the error part
ensure_class_entity_and_access_level(s, entity_id, actor) ==
    IF ensure_known_entity_id(s, entity_id) # Ok
    THEN [err |-> ensure_known_entity_id(s, entity_id), level |-> "None"]
    ELSE derive(s, entity_by_id(s, entity_id),
                class_by_id(s, entity_by_id(s, entity_id).class_id), actor)

\* the check of the reference counter before removal, left out
ensure_rc_is_zero_skipped(s, entity_id) == Ok

ensure_rc_is_zero(s, entity_id) ==
    ensure(entity_by_id(s, entity_id).reference_count = 0,
           "ERROR_ENTITY_RC_DOES_NOT_EQUAL_TO_ZERO")

remove_entity(s, actor, entity_id) ==
    LET access == ensure_class_entity_and_access_level(s, entity_id, actor)
        entity == entity_by_id(s, entity_id)
        err == IF access.err # Ok THEN access.err
               ELSE IF ensure_group_can_remove_entity(access.level) # Ok
                    THEN ensure_group_can_remove_entity(access.level)
               ELSE ensure_rc_is_zero(s, entity_id)
    IN  IF err # Ok THEN Return(s, err)
        ELSE Deposit([s EXCEPT
                 !.EntityById = StorageRemove(@, entity_id),
                 !.ClassById = StorageInsert(@, entity.class_id,
                                   decrement_entities_count(
                                       class_by_id(s, entity.class_id)))],
               <<"EntityRemoved", actor, entity_id>>)

\* ------------------------------------------------------- small helpers

Range(seq) == {seq[i] : i \in DOMAIN seq}

Min(set) == CHOOSE x \in set : \A y \in set : x <= y

\* the elements of a set of numbers in ascending order (BTreeMap / BTreeSet order)
RECURSIVE Ascending(_)
Ascending(set) ==
    IF set = {} THEN <<>> ELSE <<Min(set)>> \o Ascending(set \ {Min(set)})

Occurrences(seq, x) == Cardinality({i \in DOMAIN seq : seq[i] = x})

RemoveAt(seq, i) == [j \in 1..(Len(seq) - 1) |-> IF j < i THEN seq[j] ELSE seq[j + 1]]

InsertAt(seq, i, x) ==
    [j \in 1..(Len(seq) + 1) |-> IF j < i THEN seq[j] ELSE IF j = i THEN x ELSE seq[j - 1]]

\* the property of a class under a PropertyId (an index from zero)
has_property(class, prop_id) == prop_id + 1 \in DOMAIN class.properties

class_property(class, prop_id) == class.properties[prop_id + 1]

\* ------------------------------------------------------ reference counters

increment_entity_rcs(s, entity_id, rc, same_owner) ==
    LET entity == entity_by_id(s, entity_id)
        mutated ==
            IF same_owner
            THEN [entity EXCEPT
                    !.inbound_same_owner_references_from_other_entities_count =
                        WrappingAdd(@, rc),
                    !.reference_count = WrappingAdd(@, rc)]
            ELSE [entity EXCEPT !.reference_count = WrappingAdd(@, rc)]
    IN  [s EXCEPT !.EntityById = StorageInsert(@, entity_id, mutated)]

decrement_entity_rcs(s, entity_id, rc, same_owner) ==
    LET entity == entity_by_id(s, entity_id)
        mutated ==
            IF same_owner
            THEN [entity EXCEPT
                    !.inbound_same_owner_references_from_other_entities_count =
                        WrappingSub(@, rc),
                    !.reference_count = WrappingSub(@, rc)]
            ELSE [entity EXCEPT !.reference_count = WrappingSub(@, rc)]
    IN  [s EXCEPT !.EntityById = StorageInsert(@, entity_id, mutated)]

\* map.iter().for_each(|(entity_id, rc)| Self::increment_entity_rcs(entity_id, *rc, same_owner))
RECURSIVE increment_each(_, _, _)
increment_each(s, rcs_map, same_owner) ==
    IF DOMAIN rcs_map = {} THEN s
    ELSE LET entity_id == Min(DOMAIN rcs_map)
         IN  increment_each(
                 increment_entity_rcs(s, entity_id, rcs_map[entity_id], same_owner),
                 StorageRemove(rcs_map, entity_id), same_owner)

\* map.iter().for_each(|(entity_id, rc)| Self::decrement_entity_rcs(entity_id, *rc, same_owner))
RECURSIVE decrement_each(_, _, _)
decrement_each(s, rcs_map, same_owner) ==
    IF DOMAIN rcs_map = {} THEN s
    ELSE LET entity_id == Min(DOMAIN rcs_map)
         IN  decrement_each(
                 decrement_entity_rcs(s, entity_id, rcs_map[entity_id], same_owner),
                 StorageRemove(rcs_map, entity_id), same_owner)

\* EntitiesRc::default()
DefaultEntitiesRc == [inbound_entity_rcs |-> << >>, inbound_same_owner_entity_rcs |-> << >>]

fill_in_entity_rcs_map(entity_rcs, entity_rcs_map) ==
    [id \in DOMAIN entity_rcs_map \cup Range(entity_rcs) |->
        StorageGet(entity_rcs_map, id, 0) + Occurrences(entity_rcs, id)]

count_element_function(it) == [item \in Range(it) |-> Occurrences(it, item)]

\* fill the map the property's same_controller flag selects
fill_in_entity_rcs(entities_rc, entity_rcs, same_owner) ==
    IF same_owner
    THEN [entities_rc EXCEPT !.inbound_same_owner_entity_rcs =
                                 fill_in_entity_rcs_map(entity_rcs, @)]
    ELSE [entities_rc EXCEPT !.inbound_entity_rcs = fill_in_entity_rcs_map(entity_rcs, @)]

\* -------------------------------------------------------------- validation

\* a referenced entity: stored, of the class the type names, referenceable and,
\* under same_controller, held by the controller of the referring entity
ensure_reference_is_valid(s, prop_type, entity_id, controller) ==
    LET entity == entity_by_id(s, entity_id)
    IN  IF entity_id \notin DOMAIN s.EntityById THEN "ERROR_ENTITY_NOT_FOUND"
        ELSE IF entity.class_id # prop_type.class_id THEN "ValueTypeMismatch"
        ELSE IF ~entity.referenceable THEN "ReferencedEntityNotReferenceable"
        ELSE IF prop_type.same_controller /\ entity.controller # controller
             THEN "SameOwnerConstraintViolated"
        ELSE Ok

ensure_references_are_valid(s, prop_type, entity_ids, controller) ==
    IF \A i \in DOMAIN entity_ids :
           ensure_reference_is_valid(s, prop_type, entity_ids[i], controller) = Ok
    THEN Ok
    ELSE ensure_reference_is_valid(s, prop_type,
             entity_ids[Min({i \in DOMAIN entity_ids :
                 ensure_reference_is_valid(s, prop_type, entity_ids[i], controller) # Ok})],
             controller)

\* Property::ensure_property_value_to_update_is_valid
ensure_property_value_to_update_is_valid(s, class_prop, value, controller) ==
    LET prop_type == class_prop.prop_type
    IN  IF (value.kind = "Vector") # prop_type.is_vec \/ value.t # prop_type.inner
        THEN "ValueTypeMismatch"
        ELSE IF prop_type.is_vec /\ Len(value.vec) > prop_type.max_len THEN "VecTooLong"
        ELSE IF prop_type.inner = "Reference"
             THEN ensure_references_are_valid(s, prop_type, get_involved_entities(value),
                                              controller)
        ELSE Ok

\* Property::ensure_prop_value_can_be_inserted_at_prop_vec
ensure_prop_value_can_be_inserted_at_prop_vec(s, class_prop, property_value, entity_prop_value, index_in_property_vec, controller) ==
    LET prop_type == class_prop.prop_type
    IN  IF index_in_property_vec > Len(entity_prop_value.vec) THEN "IndexOutOfBounds"
        ELSE IF property_value.t # entity_prop_value.t \/ property_value.t # prop_type.inner
             THEN "ValueTypeMismatch"
        ELSE IF Len(entity_prop_value.vec) + 1 > prop_type.max_len THEN "VecTooLong"
        ELSE IF prop_type.inner = "Reference"
             THEN ensure_reference_is_valid(s, prop_type, property_value.v, controller)
        ELSE Ok

\* the comparison of the nonce before a vector operation, left out
ensure_nonce_equality_skipped(vec_value, nonce) == Ok

\* VecPropertyValue::ensure_nonce_equality
ensure_nonce_equality(vec_value, nonce) == ensure(vec_value.nonce = nonce, "NonceMismatch")

\* VecPropertyValue::ensure_index_in_property_vector_is_valid
ensure_index_in_property_vector_is_valid(vec_value, index_in_property_vec) ==
    ensure(index_in_property_vec < Len(vec_value.vec), "IndexOutOfBounds")

\* VecPropertyValue::vec_clear
vec_clear(vec_value) == [vec_value EXCEPT !.vec = <<>>, !.nonce = WrappingAdd(@, 1)]

\* VecPropertyValue::vec_remove_at
vec_remove_at(vec_value, index_in_property_vec) ==
    [vec_value EXCEPT !.vec = RemoveAt(@, index_in_property_vec + 1),
                      !.nonce = WrappingAdd(@, 1)]

\* VecPropertyValue::vec_insert_at
vec_insert_at(vec_value, index_in_property_vec, value) ==
    [vec_value EXCEPT !.vec = InsertAt(@, index_in_property_vec + 1, value.v),
                      !.nonce = WrappingAdd(@, 1)]

\* PropertyValue::update: the new value; a vector keeps counting its nonce
update(current_prop_value, new_value) ==
    IF current_prop_value.kind = "Vector" /\ new_value.kind = "Vector"
    THEN [new_value EXCEPT !.nonce = current_prop_value.nonce]
    ELSE new_value

ensure_property_value_vec(entity, in_class_schema_property_id) ==
    IF in_class_schema_property_id \notin DOMAIN entity.values
    THEN "ERROR_UNKNOWN_ENTITY_PROP_ID"
    ELSE ensure(entity.values[in_class_schema_property_id].kind = "Vector",
                "ERROR_PROP_VALUE_UNDER_GIVEN_INDEX_IS_NOT_A_VECTOR")

\* ensure_class_property_type_unlocked_for without the class-level check
ensure_class_property_type_unlocked_for_property_only(class, in_class_schema_property_id, entity_access_level) ==
    IF ~has_property(class, in_class_schema_property_id)
    THEN "ERROR_CLASS_PROP_NOT_FOUND"
    ELSE ensure(~is_locked_from(class_property(class, in_class_schema_property_id),
                                entity_access_level),
                "ERROR_CLASS_PROPERTY_TYPE_IS_LOCKED_FOR_GIVEN_ACTOR")

ensure_class_property_type_unlocked_for(class, in_class_schema_property_id, entity_access_level) ==
    IF class.class_permissions.all_entity_property_values_locked
    THEN "ERROR_ALL_PROP_WERE_LOCKED_ON_CLASS_LEVEL"
    ELSE IF ~has_property(class, in_class_schema_property_id)
         THEN "ERROR_CLASS_PROP_NOT_FOUND"
    ELSE ensure(~is_locked_from(class_property(class, in_class_schema_property_id),
                                entity_access_level),
                "ERROR_CLASS_PROPERTY_TYPE_IS_LOCKED_FOR_GIVEN_ACTOR")

\* ------------------------------------------------ schema support of entities

\* ensure_schema_is_active without `ensure!(is_active, ..)`
ensure_schema_is_active_unchecked(class, schema_index) ==
    ensure(schema_index + 1 \in DOMAIN class.schemas, "ERROR_UNKNOWN_CLASS_SCHEMA_ID")

\* Class::ensure_schema_is_active
ensure_schema_is_active(class, schema_index) ==
    IF schema_index + 1 \notin DOMAIN class.schemas THEN "ERROR_UNKNOWN_CLASS_SCHEMA_ID"
    ELSE ensure(class.schemas[schema_index + 1].is_active, "ERROR_CLASS_SCHEMA_NOT_ACTIVE")

\* the check that the entity does not support the schema yet, left out
ensure_schema_id_is_not_added_skipped(entity, schema_id) == Ok

\* Entity::ensure_schema_id_is_not_added
ensure_schema_id_is_not_added(entity, schema_id) ==
    ensure(schema_id \notin entity.supported_schemas, "ERROR_SCHEMA_ALREADY_ADDED_TO_ENTITY")

\* What the loops over property ids carry: the error so far, the staged values
\* and the reference counter maps.
Staged(err, values, to_increment, to_decrement, updated) ==
    [err |-> err, values |-> values, to_increment |-> to_increment,
     to_decrement |-> to_decrement, updated |-> updated]

\* add_new_property_value that stores the supplied values only
add_new_property_value_supplied_only(s, class, entity, prop_id, property_values, staged) ==
    IF prop_id \in DOMAIN property_values
    THEN [staged EXCEPT !.values = StorageInsert(@, prop_id, property_values[prop_id])]
    ELSE staged

add_new_property_value(s, class, entity, prop_id, property_values, staged) ==
    LET class_prop == class_property(class, prop_id)
        new_value == property_values[prop_id]
        valid == ensure_property_value_to_update_is_valid(s, class_prop, new_value,
                                                          entity.controller)
        must_be_unique ==
            (~ValueEq(new_value, DefaultPropertyValue) \/ class_prop.required)
                /\ class_prop.unique
        is_unique == \A id \in DOMAIN staged.values : ~ValueEq(staged.values[id], new_value)
    IN  IF prop_id \in DOMAIN property_values
        THEN IF valid # Ok THEN [staged EXCEPT !.err = valid]
             ELSE IF must_be_unique /\ ~is_unique
                  THEN [staged EXCEPT !.err = "ERROR_PROPERTY_VALUE_SHOULD_BE_UNIQUE"]
             ELSE [staged EXCEPT
                     !.to_increment =
                         IF has_involved_entities(new_value)
                         THEN fill_in_entity_rcs(@, get_involved_entities(new_value),
                                  same_controller_status(class_prop.prop_type))
                         ELSE @,
                     !.values = StorageInsert(@, prop_id, new_value)]
        ELSE IF class_prop.required THEN [staged EXCEPT !.err = "ERROR_MISSING_REQUIRED_PROP"]
        ELSE [staged EXCEPT !.values = StorageInsert(@, prop_id, DefaultPropertyValue)]

\* for prop_id in schema_prop_ids.iter() { .. add_new_property_value(..)? }
RECURSIVE add_schema_properties(_, _, _, _, _, _)
add_schema_properties(s, class, entity, schema_prop_ids, property_values, staged) ==
    IF schema_prop_ids = <<>> \/ staged.err # Ok THEN staged
    ELSE add_schema_properties(s, class, entity, Tail(schema_prop_ids), property_values,
             IF Head(schema_prop_ids) \in DOMAIN entity.values THEN staged
             ELSE add_new_property_value(s, class, entity, Head(schema_prop_ids),
                                         property_values, staged))

add_schema_support_to_entity(s, actor, entity_id, schema_id, property_values) ==
    LET access == ensure_class_entity_and_access_level(s, entity_id, actor)
        entity == entity_by_id(s, entity_id)
        class == class_by_id(s, entity.class_id)
        err == IF access.err # Ok THEN access.err
               ELSE IF ensure_schema_is_active(class, schema_id) # Ok
                    THEN ensure_schema_is_active(class, schema_id)
               ELSE ensure_schema_id_is_not_added(entity, schema_id)
        staged == add_schema_properties(s, class, entity,
                      class.schemas[schema_id + 1].properties, property_values,
                      Staged(Ok, entity.values, DefaultEntitiesRc, DefaultEntitiesRc, FALSE))
        stored == [entity EXCEPT
                     !.supported_schemas = @ \cup {schema_id},
                     !.values = IF Cardinality(DOMAIN staged.values) >
                                       Cardinality(DOMAIN entity.values)
                                THEN staged.values ELSE @]
        s1 == [s EXCEPT !.EntityById = StorageInsert(@, entity_id, stored)]
        s2 == increment_each(s1, staged.to_increment.inbound_same_owner_entity_rcs, TRUE)
        s3 == increment_each(s2, staged.to_increment.inbound_entity_rcs, FALSE)
    IN  IF err # Ok THEN Return(s, err)
        ELSE IF staged.err # Ok THEN Return(s, staged.err)
        ELSE Deposit(s3, <<"EntitySchemaSupportAdded", actor, entity_id, schema_id>>)

\* ------------------------------------------------------ property value update

\* the zip without `.filter(|(d, i)| d != i)`: every position of the shorter vector
ZipWithoutFilter(entities_rc_to_decrement_vec, entities_rc_to_increment_vec) ==
    LET n == IF Len(entities_rc_to_decrement_vec) < Len(entities_rc_to_increment_vec)
             THEN Len(entities_rc_to_decrement_vec)
             ELSE Len(entities_rc_to_increment_vec)
    IN  1..n

\* the pairs of (old, new) ids at the same position that differ
ZipFilter(entities_rc_to_decrement_vec, entities_rc_to_increment_vec) ==
    LET n == IF Len(entities_rc_to_decrement_vec) < Len(entities_rc_to_increment_vec)
             THEN Len(entities_rc_to_decrement_vec)
             ELSE Len(entities_rc_to_increment_vec)
    IN  {i \in 1..n : entities_rc_to_decrement_vec[i] # entities_rc_to_increment_vec[i]}

\* the elements of seq at the positions of the set, in order
RECURSIVE SelectAt(_, _)
SelectAt(seq, positions) ==
    IF positions = {} THEN <<>>
    ELSE <<seq[Min(positions)]>> \o SelectAt(seq, positions \ {Min(positions)})

perform_entity_property_value_update(s, class, entity, id, access_level, new_value, staged) ==
    LET class_prop == class_property(class, id)
        current_prop_value == staged.values[id]
        valid == ensure_property_value_to_update_is_valid(s, class_prop, new_value,
                                                          entity.controller)
        both == has_involved_entities(new_value) /\ has_involved_entities(current_prop_value)
        differ == ZipFilter(get_involved_entities(current_prop_value),
                            get_involved_entities(new_value))
        entities_rc_to_decrement_vec ==
            SelectAt(get_involved_entities(current_prop_value), differ)
        entities_rc_to_increment_vec == SelectAt(get_involved_entities(new_value), differ)
        same_owner == same_controller_status(class_prop.prop_type)
    IN  IF ~has_property(class, id) THEN staged
        ELSE IF is_locked_from(class_prop, access_level)
             THEN [staged EXCEPT !.err = "ERROR_CLASS_PROPERTY_TYPE_IS_LOCKED_FOR_GIVEN_ACTOR"]
        ELSE IF valid # Ok THEN [staged EXCEPT !.err = valid]
        ELSE [staged EXCEPT
                !.to_increment =
                    IF both THEN fill_in_entity_rcs(@, entities_rc_to_increment_vec, same_owner)
                    ELSE @,
                !.to_decrement =
                    IF both THEN fill_in_entity_rcs(@, entities_rc_to_decrement_vec, same_owner)
                    ELSE @,
                !.values = [@ EXCEPT ![id] = update(current_prop_value, new_value)]]

\* the loop without `if new_value == *current_prop_value { continue; }`
RECURSIVE update_property_values_without_skip(_, _, _, _, _, _, _)
update_property_values_without_skip(s, class, entity, access_level, ids, new_property_values, staged) ==
    IF ids = <<>> \/ staged.err # Ok THEN staged
    ELSE LET id == Head(ids)
             new_value == new_property_values[id]
             next ==
                 IF id \notin DOMAIN staged.values
                 THEN [staged EXCEPT !.err = "ERROR_UNKNOWN_ENTITY_PROP_ID"]
                 ELSE [perform_entity_property_value_update(s, class, entity, id,
                           access_level, new_value, staged)
                       EXCEPT !.updated = TRUE]
         IN  update_property_values_without_skip(s, class, entity, access_level,
                 Tail(ids), new_property_values, next)

\* for (id, new_value) in new_property_values.into_iter() { .. }
RECURSIVE update_property_values(_, _, _, _, _, _, _)
update_property_values(s, class, entity, access_level, ids, new_property_values, staged) ==
    IF ids = <<>> \/ staged.err # Ok THEN staged
    ELSE LET id == Head(ids)
             new_value == new_property_values[id]
             next ==
                 IF id \notin DOMAIN staged.values
                 THEN [staged EXCEPT !.err = "ERROR_UNKNOWN_ENTITY_PROP_ID"]
                 ELSE IF ValueEq(new_value, staged.values[id]) THEN staged
                 ELSE [perform_entity_property_value_update(s, class, entity, id,
                           access_level, new_value, staged)
                       EXCEPT !.updated = TRUE]
         IN  update_property_values(s, class, entity, access_level, Tail(ids),
                                    new_property_values, next)

update_entity_property_values(s, actor, entity_id, new_property_values) ==
    LET access == ensure_class_entity_and_access_level(s, entity_id, actor)
        entity == entity_by_id(s, entity_id)
        class == class_by_id(s, entity.class_id)
        err == IF access.err # Ok THEN access.err
               ELSE ensure(~class.class_permissions.all_entity_property_values_locked,
                           "ERROR_ALL_PROP_WERE_LOCKED_ON_CLASS_LEVEL")
        staged == update_property_values(s, class, entity, access.level,
                      Ascending(DOMAIN new_property_values), new_property_values,
                      Staged(Ok, entity.values, DefaultEntitiesRc, DefaultEntitiesRc, FALSE))
        s1 == [s EXCEPT !.EntityById =
                  StorageInsert(@, entity_id, [entity EXCEPT !.values = staged.values])]
        s2 == increment_each(s1, staged.to_increment.inbound_same_owner_entity_rcs, TRUE)
        s3 == increment_each(s2, staged.to_increment.inbound_entity_rcs, FALSE)
        s4 == decrement_each(s3, staged.to_decrement.inbound_same_owner_entity_rcs, TRUE)
        s5 == decrement_each(s4, staged.to_decrement.inbound_entity_rcs, FALSE)
    IN  IF err # Ok THEN Return(s, err)
        ELSE IF staged.err # Ok THEN Return(s, staged.err)
        ELSE IF staged.updated
             THEN Deposit(s5, <<"EntityPropertyValuesUpdated", actor, entity_id>>)
        ELSE Return(s, Ok)

\* ------------------------------------------------------- vector operations

clear_entity_property_vector(s, actor, entity_id, in_class_schema_property_id) ==
    LET access == ensure_class_entity_and_access_level(s, entity_id, actor)
        entity == entity_by_id(s, entity_id)
        class == class_by_id(s, entity.class_id)
        err == IF access.err # Ok THEN access.err
               ELSE IF ensure_property_value_vec(entity, in_class_schema_property_id) # Ok
                    THEN ensure_property_value_vec(entity, in_class_schema_property_id)
               ELSE ensure_class_property_type_unlocked_for(
                        class, in_class_schema_property_id, access.level)
        current_property_value_vec == entity.values[in_class_schema_property_id]
        property == class_property(class, in_class_schema_property_id)
        \* the closure's own copy of the entity, written when the closure returns
        cleared == [entity EXCEPT
                      !.values[in_class_schema_property_id] = vec_clear(@)]
        \* the decrements the closure writes to storage while it runs
        s1 == IF has_involved_entities(current_property_value_vec)
              THEN decrement_each(s,
                       count_element_function(
                           get_involved_entities(current_property_value_vec)),
                       same_controller_status(property.prop_type))
              ELSE s
    IN  IF err # Ok THEN Return(s, err)
        ELSE Deposit([s1 EXCEPT !.EntityById = StorageInsert(@, entity_id, cleared)],
                     <<"EntityPropertyValueVectorCleared", actor, entity_id,
                       in_class_schema_property_id>>)

remove_at_entity_property_vector(s, actor, entity_id, in_class_schema_property_id, index_in_property_vec, nonce) ==
    LET access == ensure_class_entity_and_access_level(s, entity_id, actor)
        entity == entity_by_id(s, entity_id)
        class == class_by_id(s, entity.class_id)
        current_property_value_vec == entity.values[in_class_schema_property_id]
        err == IF access.err # Ok THEN access.err
               ELSE IF ensure_property_value_vec(entity, in_class_schema_property_id) # Ok
                    THEN ensure_property_value_vec(entity, in_class_schema_property_id)
               ELSE IF ensure_class_property_type_unlocked_for(
                           class, in_class_schema_property_id, access.level) # Ok
                    THEN ensure_class_property_type_unlocked_for(
                             class, in_class_schema_property_id, access.level)
               ELSE IF ensure_nonce_equality(current_property_value_vec, nonce) # Ok
                    THEN ensure_nonce_equality(current_property_value_vec, nonce)
               ELSE ensure_index_in_property_vector_is_valid(
                        current_property_value_vec, index_in_property_vec)
        property == class_property(class, in_class_schema_property_id)
        involved_entity_id ==
            get_involved_entities(current_property_value_vec)[index_in_property_vec + 1]
        s1 == [s EXCEPT !.EntityById = StorageInsert(@, entity_id,
                  [entity EXCEPT !.values[in_class_schema_property_id] =
                                     vec_remove_at(@, index_in_property_vec)])]
        s2 == IF has_involved_entities(current_property_value_vec)
              THEN decrement_entity_rcs(s1, involved_entity_id, 1,
                                        same_controller_status(property.prop_type))
              ELSE s1
    IN  IF err # Ok THEN Return(s, err)
        ELSE Deposit(s2, <<"RemovedAtEntityPropertyValueVectorIndex", actor, entity_id,
                           in_class_schema_property_id, index_in_property_vec, nonce>>)

insert_at_entity_property_vector(s, actor, entity_id, in_class_schema_property_id, index_in_property_vec, property_value, nonce) ==
    LET access == ensure_class_entity_and_access_level(s, entity_id, actor)
        entity == entity_by_id(s, entity_id)
        class == class_by_id(s, entity.class_id)
        is_vector == /\ in_class_schema_property_id \in DOMAIN entity.values
                     /\ entity.values[in_class_schema_property_id].kind = "Vector"
        entity_prop_value == entity.values[in_class_schema_property_id]
        class_prop == class_property(class, in_class_schema_property_id)
        err == IF access.err # Ok THEN access.err
               ELSE IF ~is_vector THEN Ok
               ELSE IF ensure_class_property_type_unlocked_for(
                           class, in_class_schema_property_id, access.level) # Ok
                    THEN ensure_class_property_type_unlocked_for(
                             class, in_class_schema_property_id, access.level)
               ELSE IF ensure_nonce_equality(entity_prop_value, nonce) # Ok
                    THEN ensure_nonce_equality(entity_prop_value, nonce)
               ELSE ensure_prop_value_can_be_inserted_at_prop_vec(
                        s, class_prop, property_value, entity_prop_value,
                        index_in_property_vec, entity.controller)
        same_owner == is_vector /\ same_controller_status(class_prop.prop_type)
        \* the increment the closure writes to storage while it runs
        s1 == IF has_involved_entity(property_value)
              THEN increment_entity_rcs(s, property_value.v, 1, same_owner)
              ELSE s
        \* the closure's own copy of the entity, written when the closure returns
        inserted == IF is_vector
                    THEN [entity EXCEPT !.values[in_class_schema_property_id] =
                              vec_insert_at(@, index_in_property_vec, property_value)]
                    ELSE entity
    IN  IF err # Ok THEN Return(s, err)
        ELSE IF is_vector
             THEN Deposit([s1 EXCEPT !.EntityById = StorageInsert(@, entity_id, inserted)],
                          <<"InsertedAtEntityPropertyValueVectorIndex", actor, entity_id,
                            in_class_schema_property_id, index_in_property_vec, nonce>>)
        ELSE Return([s1 EXCEPT !.EntityById = StorageInsert(@, entity_id, inserted)], Ok)

\* ------------------------------------------------------ ownership transfer

\* the check of the same-owner counter before a transfer, left out
ensure_inbound_same_owner_rc_is_zero_skipped(entity) == Ok

\* get_all_same_owner_entities without the recursion into the entities found
walk_entity_ids_one_hop(s, class, entity_ids, entities) ==
    entities \cup {entity_ids[i] : i \in DOMAIN entity_ids}

ensure_inbound_same_owner_rc_is_zero(entity) ==
    ensure(entity.inbound_same_owner_references_from_other_entities_count = 0,
           "ERROR_ENTITY_RC_DOES_NOT_EQUAL_TO_ZERO")

RECURSIVE walk_entity_values(_, _, _, _, _), walk_entity_ids(_, _, _, _)

\* retrieve_all_entities_to_perform_ownership_transfer from the property ids
\* still to visit (entity.values.iter(), in ascending order of the ids)
walk_entity_values(s, class, entity, ids, entities) ==
    IF ids = <<>> THEN entities
    ELSE LET id == Head(ids)
             class_prop == class_property(class, id)
             class_id == class_prop.prop_type.class_id
             new_class == IF class_id # entity.class_id THEN class_by_id(s, class_id)
                          ELSE class
             found == IF has_property(class, id)
                         /\ same_controller_status(class_prop.prop_type)
                      THEN walk_entity_ids(s, new_class,
                               get_involved_entities(entity.values[id]), entities)
                      ELSE entities
         IN  walk_entity_values(s, class, entity, Tail(ids), found)

\* get_all_same_owner_entities from the ids still to visit
walk_entity_ids(s, class, entity_ids, entities) ==
    IF entity_ids = <<>> THEN entities
    ELSE LET entity_id == Head(entity_ids)
             new_entity == entity_by_id(s, entity_id)
             found == IF entity_id \notin entities
                      THEN walk_entity_values(s, class, new_entity,
                               Ascending(DOMAIN new_entity.values),
                               entities \cup {entity_id})
                      ELSE entities
         IN  walk_entity_ids(s, class, Tail(entity_ids), found)

retrieve_all_entities_to_perform_ownership_transfer(s, class, entity, entities) ==
    walk_entity_values(s, class, entity, Ascending(DOMAIN entity.values), entities)

get_all_same_owner_entities(s, class, value, entities) ==
    walk_entity_ids(s, class, get_involved_entities(value), entities)

\* the rewrite applied to every stored entity instead of the collected ones
set_conroller_every(s, entities, new_controller) ==
    [s EXCEPT !.EntityById =
        [e \in DOMAIN @ |-> [@[e] EXCEPT !.controller = new_controller]]]

\* entities.into_iter().for_each(|id| EntityById::mutate(id, |e| e.set_conroller(..)))
RECURSIVE set_conroller_each(_, _, _)
set_conroller_each(s, entities, new_controller) ==
    IF entities = {} THEN s
    ELSE LET involved_entity_id == Min(entities)
         IN  set_conroller_each(
                 [s EXCEPT !.EntityById = StorageInsert(@, involved_entity_id,
                      [entity_by_id(s, involved_entity_id)
                           EXCEPT !.controller = new_controller])],
                 entities \ {involved_entity_id}, new_controller)

transfer_entity_ownership(s, origin, entity_id, new_controller) ==
    LET entity == entity_by_id(s, entity_id)
        class == class_by_id(s, entity.class_id)
        err == IF ensure_is_lead(origin) # Ok THEN ensure_is_lead(origin)
               ELSE IF ensure_known_entity_id(s, entity_id) # Ok
                    THEN ensure_known_entity_id(s, entity_id)
               ELSE ensure_inbound_same_owner_rc_is_zero(entity)
        entities == retrieve_all_entities_to_perform_ownership_transfer(
                        s, class, entity, {entity_id})
    IN  IF err # Ok THEN Return(s, err)
        ELSE Deposit(set_conroller_each(s, entities, new_controller),
                     <<"EntityOwnershipTransfered", entity_id, new_controller>>)

\* ------------------------------------------------------------ transaction

ExistingEntity(entity_id) == <<"ExistingEntity", entity_id>>

InternalEntityJustAdded(op_index) == <<"InternalEntityJustAdded", op_index>>

\* a parametrized property value: a plain value, or a reference (vector) whose
\* ids are parametrized entities
PlainPropertyValue(value) == [p |-> "PropertyValue", value |-> value, ids |-> <<>>]

InternalReference(op_index) ==
    [p |-> "InternalEntityJustAdded", value |-> Bool(0),
     ids |-> <<InternalEntityJustAdded(op_index)>>]

InternalEntityVec(parametrized_entities) ==
    [p |-> "InternalEntityVec", value |-> Bool(0), ids |-> parametrized_entities]

CreateEntityOperation(class_id) ==
    [type |-> "CreateEntity", class_id |-> class_id, entity_id |-> ExistingEntity(0),
     schema_id |-> 0, values |-> << >>]

UpdatePropertyValuesOperation(entity_id, new_parametrized_property_values) ==
    [type |-> "UpdatePropertyValues", class_id |-> 0, entity_id |-> entity_id,
     schema_id |-> 0, values |-> new_parametrized_property_values]

AddSchemaSupportToEntityOperation(entity_id, schema_id, parametrized_property_values) ==
    [type |-> "AddSchemaSupportToEntity", class_id |-> 0, entity_id |-> entity_id,
     schema_id |-> schema_id, values |-> parametrized_property_values]

\* operations::parametrized_entity_to_entity_id, the error part
parametrized_entity_error(entity_created_in_operation, entity) ==
    ensure(entity[1] = "ExistingEntity" \/ entity[2] \in DOMAIN entity_created_in_operation,
           "InternalEntityReferencesOutOfBounds")

\* the index of a batch taken for the entity id itself
parametrized_entity_to_entity_id_of_index(entity_created_in_operation, entity) == entity[2]

\* operations::parametrized_entity_to_entity_id, the id
parametrized_entity_to_entity_id(entity_created_in_operation, entity) ==
    IF entity[1] = "ExistingEntity" THEN entity[2]
    ELSE entity_created_in_operation[entity[2]]

\* operations::parametrized_property_values_to_property_values, the error part
parametrized_property_values_error(entity_created_in_operation, values) ==
    ensure(\A id \in DOMAIN values : \A i \in DOMAIN values[id].ids :
               parametrized_entity_error(entity_created_in_operation,
                                         values[id].ids[i]) = Ok,
           "InternalEntityReferencesOutOfBounds")

\* operations::parametrized_property_values_to_property_values, the values
parametrized_property_values_to_property_values(entity_created_in_operation, values) ==
    [id \in DOMAIN values |->
        IF values[id].p = "PropertyValue" THEN values[id].value
        ELSE IF values[id].p = "InternalEntityJustAdded"
             THEN Reference(parametrized_entity_to_entity_id(
                                entity_created_in_operation, values[id].ids[1]))
        ELSE ReferenceVec([i \in DOMAIN values[id].ids |->
                              parametrized_entity_to_entity_id(
                                  entity_created_in_operation, values[id].ids[i])], 0)]

ensure_number_of_operations_during_atomic_batching_limit_not_reached(operations) ==
    ensure(Len(operations) <= MaxNumberOfOperationsDuringAtomicBatching,
           "ERROR_MAX_NUMBER_OF_OPERATIONS_DURING_ATOMIC_BATCHING_LIMIT_REACHED")

\* one operation of the batch: the outcome, and the map of created entities
transaction_operation(s, actor, op_index, operation, entity_created_in_operation) ==
    LET created == create_entity(s, operation.class_id, actor)
        entity_error == parametrized_entity_error(entity_created_in_operation,
                                                  operation.entity_id)
        values_error == parametrized_property_values_error(entity_created_in_operation,
                                                           operation.values)
        entity_id == parametrized_entity_to_entity_id(entity_created_in_operation,
                                                      operation.entity_id)
        property_values == parametrized_property_values_to_property_values(
                               entity_created_in_operation, operation.values)
    IN  IF operation.type = "CreateEntity"
        THEN [r |-> created,
              map |-> IF created.err = Ok
                      THEN StorageInsert(entity_created_in_operation, op_index,
                                         WrappingSub(created.s.NextEntityId, 1))
                      ELSE entity_created_in_operation]
        ELSE [r |-> IF entity_error # Ok THEN Return(s, entity_error)
                    ELSE IF values_error # Ok THEN Return(s, values_error)
                    ELSE IF operation.type = "UpdatePropertyValues"
                         THEN update_entity_property_values(s, actor, entity_id,
                                                            property_values)
                    ELSE add_schema_support_to_entity(s, actor, entity_id,
                                                      operation.schema_id, property_values),
              map |-> entity_created_in_operation]

\* for (op_index, operation_type) in operations.into_iter().enumerate() { .. ? }
\* and the event of the batch; the events of the operations come first
RECURSIVE transaction_operations(_, _, _, _, _)
transaction_operations(s, actor, operations, op_index, entity_created_in_operation) ==
    IF op_index >= Len(operations) THEN Deposit(s, <<"TransactionCompleted", actor>>)
    ELSE LET done == transaction_operation(s, actor, op_index, operations[op_index + 1],
                                           entity_created_in_operation)
         IN  IF done.r.err # Ok THEN done.r
             ELSE [transaction_operations(done.r.s, actor, operations, op_index + 1,
                                          done.map)
                   EXCEPT !.events = done.r.events \o @]

transaction(s, actor, operations) ==
    IF ensure_number_of_operations_during_atomic_batching_limit_not_reached(operations) # Ok
    THEN Return(s,
             ensure_number_of_operations_during_atomic_batching_limit_not_reached(operations))
    ELSE transaction_operations(s, actor, operations, 0, << >>)

\* --------------------------------------------------------- curator groups

\* CuratorGroup::default(): no curators, not active, maintains no class
DefaultCuratorGroup == [curators |-> {}, active |-> FALSE, classes_under_maintenance |-> 0]

\* Self::curator_group_by_id
curator_group_by_id(s, curator_group_id) ==
    StorageGet(s.CuratorGroupById, curator_group_id, DefaultCuratorGroup)

\* <CuratorGroupById<T>>::mutate(curator_group_id, ..): the group read, changed
\* and stored
mutate_curator_group(s, curator_group_id, curator_group) ==
    [s EXCEPT !.CuratorGroupById = StorageInsert(@, curator_group_id, curator_group)]

\* ensure_curator_group_under_given_id_exists and ensure_curator_group_exists
ensure_curator_group_under_given_id_exists(s, curator_group_id) ==
    ensure(curator_group_id \in DOMAIN s.CuratorGroupById,
           "ERROR_CURATOR_GROUP_DOES_NOT_EXIST")

ensure_curator_is_not_a_maintainer_skipped(curator_group) == Ok

\* set_curator_group_status with the group stored before the checks
set_curator_group_status_unordered(s, origin, curator_group_id, is_active) ==
    LET err == IF ensure_is_lead(origin) # Ok THEN ensure_is_lead(origin)
               ELSE ensure(curator_group_id \in DOMAIN s.CuratorGroupById,
                           "ERROR_CURATOR_GROUP_DOES_NOT_EXIST")
        curator_group == StorageGet(s.CuratorGroupById, curator_group_id,
                                    DefaultCuratorGroup)
        s1 == [s EXCEPT !.CuratorGroupById = StorageInsert(@, curator_group_id,
                            [curator_group EXCEPT !.active = is_active])]
    IN  IF err # Ok THEN Return(s1, err)
        ELSE Deposit(s1, <<"CuratorGroupStatusSet", is_active>>)

\* CuratorGroup::ensure_curator_is_not_a_maintainer: the group maintains no class
ensure_curator_is_not_a_maintainer(curator_group) ==
    ensure(curator_group.classes_under_maintenance = 0, "CuratorGroupRemovalForbidden")

\* CuratorGroup::ensure_max_number_of_curators_limit_not_reached
ensure_max_number_of_curators_limit_not_reached(curator_group) ==
    ensure(Cardinality(curator_group.curators) < MaxNumberOfCuratorsPerGroup,
           "CuratorsLimitReached")

\* ClassPermissions::ensure_maintainer_exists
ensure_maintainer_exists(class_permissions, curator_group_id) ==
    ensure(curator_group_id \in class_permissions.maintainers, "MaintainerDoesNotExist")

\* ClassPermissions::ensure_maintainer_does_not_exist
ensure_maintainer_does_not_exist(class_permissions, curator_group_id) ==
    ensure(curator_group_id \notin class_permissions.maintainers, "MaintainerAlreadyExists")

ensure_maintainers_limit_not_reached(curator_groups) ==
    ensure(Cardinality(curator_groups) < MaxNumberOfMaintainersPerClass,
           "ERROR_NUMBER_OF_MAINTAINERS_PER_CLASS_LIMIT_REACHED")

\* add_curator_group that leaves NextCuratorGroupId as it was
add_curator_group_without_increment(s, origin) ==
    IF ensure_is_lead(origin) # Ok THEN Return(s, ensure_is_lead(origin))
    ELSE Deposit([s EXCEPT !.CuratorGroupById =
                     StorageInsert(@, s.NextCuratorGroupId, DefaultCuratorGroup)],
                 <<"CuratorGroupAdded", s.NextCuratorGroupId>>)

add_curator_group(s, origin) ==
    LET curator_group_id == s.NextCuratorGroupId
    IN  IF ensure_is_lead(origin) # Ok THEN Return(s, ensure_is_lead(origin))
        ELSE Deposit([s EXCEPT
                         !.CuratorGroupById =
                             StorageInsert(@, curator_group_id, DefaultCuratorGroup),
                         !.NextCuratorGroupId = WrappingAdd(@, 1)],
                     <<"CuratorGroupAdded", curator_group_id>>)

remove_curator_group(s, origin, curator_group_id) ==
    LET curator_group == curator_group_by_id(s, curator_group_id)
        err == IF ensure_is_lead(origin) # Ok THEN ensure_is_lead(origin)
               ELSE IF ensure_curator_group_under_given_id_exists(s, curator_group_id) # Ok
                    THEN ensure_curator_group_under_given_id_exists(s, curator_group_id)
               ELSE ensure_curator_is_not_a_maintainer(curator_group)
    IN  IF err # Ok THEN Return(s, err)
        ELSE Deposit([s EXCEPT !.CuratorGroupById = StorageRemove(@, curator_group_id)],
                     <<"CuratorGroupRemoved", curator_group_id>>)

set_curator_group_status(s, origin, curator_group_id, is_active) ==
    LET err == IF ensure_is_lead(origin) # Ok THEN ensure_is_lead(origin)
               ELSE ensure_curator_group_under_given_id_exists(s, curator_group_id)
    IN  IF err # Ok THEN Return(s, err)
        ELSE Deposit(mutate_curator_group(s, curator_group_id,
                         [curator_group_by_id(s, curator_group_id) EXCEPT
                             !.active = is_active]),
                     <<"CuratorGroupStatusSet", is_active>>)

add_curator_to_group(s, origin, curator_group_id, curator_id) ==
    LET curator_group == curator_group_by_id(s, curator_group_id)
        err == IF ensure_is_lead(origin) # Ok THEN ensure_is_lead(origin)
               ELSE IF ensure_curator_group_under_given_id_exists(s, curator_group_id) # Ok
                    THEN ensure_curator_group_under_given_id_exists(s, curator_group_id)
               ELSE ensure_max_number_of_curators_limit_not_reached(curator_group)
    IN  IF err # Ok THEN Return(s, err)
        ELSE Deposit(mutate_curator_group(s, curator_group_id,
                         [curator_group EXCEPT !.curators = @ \cup {curator_id}]),
                     <<"CuratorAdded", curator_group_id, curator_id>>)

remove_curator_from_group(s, origin, curator_group_id, curator_id) ==
    LET err == IF ensure_is_lead(origin) # Ok THEN ensure_is_lead(origin)
               ELSE ensure_curator_group_under_given_id_exists(s, curator_group_id)
    IN  IF err # Ok THEN Return(s, err)
        ELSE Deposit(mutate_curator_group(s, curator_group_id,
                         [curator_group_by_id(s, curator_group_id) EXCEPT
                             !.curators = @ \ {curator_id}]),
                     <<"CuratorRemoved", curator_group_id, curator_id>>)

\* <ClassById<T>>::mutate(class_id, ..) on the maintainers of the class
mutate_maintainers(s, class_id, maintainers) ==
    [s EXCEPT !.ClassById = StorageInsert(@, class_id,
                  [class_by_id(s, class_id) EXCEPT
                      !.class_permissions.maintainers = maintainers])]

add_maintainer_to_class(s, origin, class_id, curator_group_id) ==
    LET class_permissions == class_by_id(s, class_id).class_permissions
        err == IF ensure_is_lead(origin) # Ok THEN ensure_is_lead(origin)
               ELSE IF ensure_known_class_id(s, class_id) # Ok
                    THEN ensure_known_class_id(s, class_id)
               ELSE IF ensure_curator_group_under_given_id_exists(s, curator_group_id) # Ok
                    THEN ensure_curator_group_under_given_id_exists(s, curator_group_id)
               ELSE IF ensure_maintainers_limit_not_reached(
                           class_permissions.maintainers) # Ok
                    THEN ensure_maintainers_limit_not_reached(class_permissions.maintainers)
               ELSE ensure_maintainer_does_not_exist(class_permissions, curator_group_id)
        s1 == mutate_maintainers(s, class_id,
                                 class_permissions.maintainers \cup {curator_group_id})
    IN  IF err # Ok THEN Return(s, err)
        ELSE Deposit(mutate_curator_group(s1, curator_group_id,
                         [curator_group_by_id(s1, curator_group_id) EXCEPT
                             !.classes_under_maintenance = WrappingAdd(@, 1)]),
                     <<"MaintainerAdded", class_id, curator_group_id>>)

remove_maintainer_from_class(s, origin, class_id, curator_group_id) ==
    LET class_permissions == class_by_id(s, class_id).class_permissions
        err == IF ensure_is_lead(origin) # Ok THEN ensure_is_lead(origin)
               ELSE IF ensure_known_class_id(s, class_id) # Ok
                    THEN ensure_known_class_id(s, class_id)
               ELSE ensure_maintainer_exists(class_permissions, curator_group_id)
        s1 == mutate_maintainers(s, class_id,
                                 class_permissions.maintainers \ {curator_group_id})
    IN  IF err # Ok THEN Return(s, err)
        ELSE Deposit(mutate_curator_group(s1, curator_group_id,
                         [curator_group_by_id(s1, curator_group_id) EXCEPT
                             !.classes_under_maintenance = WrappingSub(@, 1)]),
                     <<"MaintainerRemoved", class_id, curator_group_id>>)

\* --------------------------------------------------------- class registry

\* Option<T>: None is the empty sequence, Some(v) the sequence of v alone
None == <<>>

Some(v) == <<v>>

\* InputValidationLengthConstraint::max
max(constraint) == (constraint.min + constraint.max_min_diff) % 65536

\* InputValidationLengthConstraint::ensure_valid: the length is cut to a u16
ensure_valid(constraint, len, too_short_msg, too_long_msg) ==
    LET length == len % 65536
    IN  IF length < constraint.min THEN too_short_msg
        ELSE IF length > max(constraint) THEN too_long_msg
        ELSE Ok

ensure_class_name_is_valid(text) ==
    ensure_valid(ClassNameLengthConstraint, Len(text),
                 "ERROR_CLASS_NAME_TOO_SHORT", "ERROR_CLASS_NAME_TOO_LONG")

ensure_class_description_is_valid(text) ==
    ensure_valid(ClassDescriptionLengthConstraint, Len(text),
                 "ERROR_CLASS_DESCRIPTION_TOO_SHORT", "ERROR_CLASS_DESCRIPTION_TOO_LONG")

\* the count of the classes ClassById enumerates
ensure_class_limit_not_reached(s) ==
    ensure(MaxNumberOfClasses < Cardinality(DOMAIN s.ClassById), "ERROR_CLASS_LIMIT_REACHED")

\* for curator_group in curator_groups { ensure_curator_group_exists(..)?; }
ensure_curator_groups_exist(s, curator_groups) ==
    ensure(curator_groups \subseteq DOMAIN s.CuratorGroupById,
           "ERROR_CURATOR_GROUP_DOES_NOT_EXIST")

ensure_class_permissions_are_valid(s, class_permissions) ==
    IF ensure_maintainers_limit_not_reached(class_permissions.maintainers) # Ok
    THEN ensure_maintainers_limit_not_reached(class_permissions.maintainers)
    ELSE ensure_curator_groups_exist(s, class_permissions.maintainers)

create_class(s, origin, name, description, class_permissions, maximum_entities_count, per_controller_entity_creation_limit) ==
    LET class_id == s.NextClassId
        class == [Class(class_permissions, <<>>, <<>>, maximum_entities_count,
                        per_controller_entity_creation_limit)
                  EXCEPT !.name = name, !.description = description]
        err == IF ensure_is_lead(origin) # Ok THEN ensure_is_lead(origin)
               ELSE IF ensure_entities_creation_limits_are_valid(maximum_entities_count,
                           per_controller_entity_creation_limit) # Ok
                    THEN ensure_entities_creation_limits_are_valid(maximum_entities_count,
                             per_controller_entity_creation_limit)
               ELSE IF ensure_class_limit_not_reached(s) # Ok
                    THEN ensure_class_limit_not_reached(s)
               ELSE IF ensure_class_name_is_valid(name) # Ok
                    THEN ensure_class_name_is_valid(name)
               ELSE IF ensure_class_description_is_valid(description) # Ok
                    THEN ensure_class_description_is_valid(description)
               ELSE ensure_class_permissions_are_valid(s, class_permissions)
    IN  IF err # Ok THEN Return(s, err)
        ELSE Deposit([s EXCEPT !.ClassById = StorageInsert(@, class_id, class),
                               !.NextClassId = WrappingAdd(@, 1)],
                     <<"ClassCreated", class_id>>)

\* if let Some(v) = updated { set(v) }
set_if_some(current, updated) == IF updated = None THEN current ELSE updated[1]

update_class_permissions(s, origin, class_id, updated_any_member, updated_entity_creation_blocked, updated_all_entity_property_values_locked, updated_maintainers) ==
    LET class == class_by_id(s, class_id)
        err == IF ensure_is_lead(origin) # Ok THEN ensure_is_lead(origin)
               ELSE IF ensure_known_class_id(s, class_id) # Ok
                    THEN ensure_known_class_id(s, class_id)
               ELSE IF updated_maintainers = None THEN Ok
               ELSE IF ensure_curator_groups_exist(s, updated_maintainers[1]) # Ok
                    THEN ensure_curator_groups_exist(s, updated_maintainers[1])
               ELSE ensure_maintainers_limit_not_reached(updated_maintainers[1])
        updated == \/ updated_any_member # None
                   \/ updated_entity_creation_blocked # None
                   \/ updated_all_entity_property_values_locked # None
                   \/ updated_maintainers # None
        class_permissions ==
            [any_member |-> set_if_some(class.class_permissions.any_member,
                                        updated_any_member),
             entity_creation_blocked |->
                 set_if_some(class.class_permissions.entity_creation_blocked,
                             updated_entity_creation_blocked),
             all_entity_property_values_locked |->
                 set_if_some(class.class_permissions.all_entity_property_values_locked,
                             updated_all_entity_property_values_locked),
             maintainers |-> set_if_some(class.class_permissions.maintainers,
                                         updated_maintainers)]
    IN  IF err # Ok THEN Return(s, err)
        ELSE IF updated
             THEN Deposit([s EXCEPT !.ClassById = StorageInsert(@, class_id,
                              [class EXCEPT !.class_permissions = class_permissions])],
                          <<"ClassPermissionsUpdated", class_id>>)
        ELSE Return(s, Ok)

ensure_non_empty_schema(existing_properties, new_properties) ==
    ensure(existing_properties # <<>> \/ new_properties # <<>>,
           "ERROR_NO_PROPS_IN_CLASS_SCHEMA")

\* Class::ensure_schemas_limit_not_reached
ensure_schemas_limit_not_reached(class) ==
    ensure(NumberOfSchemasPerClass < Len(class.schemas), "ERROR_CLASS_SCHEMAS_LIMIT_REACHED")

\* Class::ensure_properties_limit_not_reached
ensure_properties_limit_not_reached(class, new_properties) ==
    ensure(MaxNumberOfPropertiesPerClass <= Len(class.properties) + Len(new_properties),
           "ERROR_CLASS_PROPERTIES_LIMIT_REACHED")

\* Property::ensure_name_is_valid
ensure_name_is_valid(prop) ==
    ensure_valid(PropertyNameLengthConstraint, Len(prop.name), "NameTooShort", "NameTooLong")

\* Property::ensure_description_is_valid
ensure_description_is_valid(prop) ==
    ensure_valid(PropertyDescriptionLengthConstraint, Len(prop.description),
                 "DescriptionTooShort", "DescriptionTooLong")

\* Property::ensure_prop_type_size_is_valid: a vector type no longer than
\* VecMaxLengthConstraint
ensure_prop_type_size_is_valid(prop) ==
    ensure(prop.prop_type.is_vec => prop.prop_type.max_len <= VecMaxLengthConstraint,
           "VecTooLong")

ensure_prop_name_is_unique_skipped(unique_prop_names, prop) == Ok

\* ensure!(!unique_prop_names.contains(&prop.name), ..)
ensure_prop_name_is_unique(unique_prop_names, prop) ==
    ensure(prop.name \notin unique_prop_names, "ERROR_PROP_NAME_NOT_UNIQUE_IN_A_CLASS")

\* for prop in new_properties.iter() { .. ? }
RECURSIVE ensure_new_properties_are_valid(_, _)
ensure_new_properties_are_valid(unique_prop_names, new_properties) ==
    IF new_properties = <<>> THEN Ok
    ELSE LET prop == Head(new_properties)
         IN  IF ensure_name_is_valid(prop) # Ok THEN ensure_name_is_valid(prop)
             ELSE IF ensure_description_is_valid(prop) # Ok
                  THEN ensure_description_is_valid(prop)
             ELSE IF ensure_prop_type_size_is_valid(prop) # Ok
                  THEN ensure_prop_type_size_is_valid(prop)
             ELSE IF ensure_prop_name_is_unique(unique_prop_names, prop) # Ok
                  THEN ensure_prop_name_is_unique(unique_prop_names, prop)
             ELSE ensure_new_properties_are_valid(unique_prop_names \cup {prop.name},
                                                  Tail(new_properties))

ensure_known_prop_indices_skipped(class, existing_properties) == Ok

\* !has_unknown_props
ensure_known_prop_indices(class, existing_properties) ==
    ensure(\A i \in DOMAIN existing_properties :
               existing_properties[i] < Len(class.properties),
           "ERROR_CLASS_SCHEMA_REFERS_UNKNOWN_PROP_INDEX")

\* !has_unknown_reference
ensure_known_reference_classes(s, new_properties) ==
    ensure(\A i \in DOMAIN new_properties :
               new_properties[i].prop_type.inner = "Reference"
                   => new_properties[i].prop_type.class_id \in DOMAIN s.ClassById,
           "ERROR_CLASS_SCHEMA_REFERS_UNKNOWN_CLASS")

add_class_schema(s, origin, class_id, existing_properties, new_properties) ==
    LET class == class_by_id(s, class_id)
        unique_prop_names == {class.properties[i].name : i \in DOMAIN class.properties}
        err == IF ensure_is_lead(origin) # Ok THEN ensure_is_lead(origin)
               ELSE IF ensure_known_class_id(s, class_id) # Ok
                    THEN ensure_known_class_id(s, class_id)
               ELSE IF ensure_non_empty_schema(existing_properties, new_properties) # Ok
                    THEN ensure_non_empty_schema(existing_properties, new_properties)
               ELSE IF ensure_schemas_limit_not_reached(class) # Ok
                    THEN ensure_schemas_limit_not_reached(class)
               ELSE IF ensure_properties_limit_not_reached(class, new_properties) # Ok
                    THEN ensure_properties_limit_not_reached(class, new_properties)
               ELSE IF ensure_new_properties_are_valid(unique_prop_names,
                                                       new_properties) # Ok
                    THEN ensure_new_properties_are_valid(unique_prop_names, new_properties)
               ELSE IF ensure_known_prop_indices(class, existing_properties) # Ok
                    THEN ensure_known_prop_indices(class, existing_properties)
               ELSE ensure_known_reference_classes(s, new_properties)
        updated_class_props == class.properties \o new_properties
        schema == Schema(existing_properties \o
                             [i \in 1..Len(new_properties) |->
                                 Len(class.properties) + i - 1],
                         TRUE)
        schemas == Append(class.schemas, schema)
    IN  IF err # Ok THEN Return(s, err)
        ELSE Deposit([s EXCEPT !.ClassById = StorageInsert(@, class_id,
                         [class EXCEPT !.properties = updated_class_props,
                                       !.schemas = schemas])],
                     <<"ClassSchemaAdded", class_id, Len(schemas) - 1>>)

\* Class::ensure_schema_id_exists
ensure_schema_id_exists(class, schema_id) ==
    ensure(schema_id < Len(class.schemas), "ERROR_UNKNOWN_CLASS_SCHEMA_ID")

update_class_schema_status(s, origin, class_id, schema_id, schema_status) ==
    LET class == class_by_id(s, class_id)
        err == IF ensure_is_lead(origin) # Ok THEN ensure_is_lead(origin)
               ELSE IF ensure_known_class_id(s, class_id) # Ok
                    THEN ensure_known_class_id(s, class_id)
               ELSE ensure_schema_id_exists(class, schema_id)
    IN  IF err # Ok THEN Return(s, err)
        ELSE Deposit([s EXCEPT !.ClassById = StorageInsert(@, class_id,
                         [class EXCEPT !.schemas[schema_id + 1].is_active = schema_status])],
                     <<"ClassSchemaStatusUpdated", class_id, schema_id, schema_status>>)

update_entity_permissions(s, origin, entity_id, updated_frozen_for_controller, updated_referenceable) ==
    LET entity == entity_by_id(s, entity_id)
        err == IF ensure_is_lead(origin) # Ok THEN ensure_is_lead(origin)
               ELSE ensure_known_entity_id(s, entity_id)
        updated == updated_frozen_for_controller # None \/ updated_referenceable # None
    IN  IF err # Ok THEN Return(s, err)
        ELSE IF updated
             THEN Deposit([s EXCEPT !.EntityById = StorageInsert(@, entity_id,
                              [entity EXCEPT
                                  !.frozen = set_if_some(@, updated_frozen_for_controller),
                                  !.referenceable = set_if_some(@, updated_referenceable)])],
                          <<"EntityPermissionsUpdated", entity_id>>)
        ELSE Return(s, Ok)

\* ------------------------------------------------------------- genesis

\* A class as create_class and add_class_schema store it, open to any member.
OpenClass(properties, schemas, maximum_entities_count, per_controller_entity_creation_limit) ==
    Class(ClassPermissions(TRUE, {}), properties, schemas, maximum_entities_count,
          per_controller_entity_creation_limit)

\* The class the genesis configuration of ClassById stores: a same_controller
\* reference and a plain reference, both to the class itself.
GenesisClasses ==
    (1 :> OpenClass(<<Property("owned", SingleRefType(1, TRUE), FALSE, FALSE),
                      Property("related", SingleRefType(1, FALSE), FALSE, FALSE)>>,
                    <<Schema(<<0, 1>>, TRUE)>>, 3, 2))

\* Two classes: same_controller references lead from class 1 into class 2 and
\* on within class 2.
TransferClasses ==
    (1 :> OpenClass(<<Property("first", SingleRefType(2, TRUE), FALSE, FALSE)>>,
                    <<Schema(<<0>>, TRUE)>>, 3, 2)) @@
    (2 :> OpenClass(<<Property("next", SingleRefType(2, TRUE), FALSE, FALSE)>>,
                    <<Schema(<<0>>, TRUE)>>, 3, 2))

\* A class without schemas under the given limits.
VoucherClasses(maximum_entities_count, per_controller_entity_creation_limit) ==
    (1 :> OpenClass(<<>>, <<>>, maximum_entities_count,
                    per_controller_entity_creation_limit))

\* A class with a vector of references to its own entities and a flag; the
\* second schema holds the property of the first and one more.
VectorClasses ==
    (1 :> OpenClass(<<Property("refs", VecRefType(1, FALSE, 2), FALSE, FALSE),
                      Property("flag", BoolType, FALSE, FALSE)>>,
                    <<Schema(<<0>>, TRUE), Schema(<<0, 1>>, TRUE)>>, 3, 2))

\* A class whose entities hold a vector of same-controller references to
\* entities of the class.
PairClasses ==
    (1 :> OpenClass(<<Property("refs", VecRefType(1, TRUE, 2), FALSE, FALSE)>>,
                    <<Schema(<<0>>, TRUE)>>, 3, 2))

\* Two classes, more than MaxNumberOfClasses: a class with a flag and one
\* schema, and a class as create_class stores it.
RegistryClasses ==
    (1 :> OpenClass(<<Property("flag", BoolType, FALSE, FALSE)>>,
                    <<Schema(<<0>>, TRUE)>>, 3, 2)) @@
    (2 :> OpenClass(<<>>, <<>>, 3, 2))

\* The class with the vector of references, and a class as create_class
\* stores it.
ExtrinsicsClasses == VectorClasses @@ (2 :> OpenClass(<<>>, <<>>, 3, 2))

\* A class with a unique flag and a plain flag; the second schema holds the
\* property of the first and one more.
UniqueClasses ==
    (1 :> OpenClass(<<Property("key", BoolType, FALSE, TRUE),
                      Property("flag", BoolType, FALSE, FALSE)>>,
                    <<Schema(<<0>>, TRUE), Schema(<<0, 1>>, TRUE)>>, 3, 2))

Genesis(classes) ==
    /\ CuratorGroupById = << >>
    /\ ClassById = classes
    /\ EntityById = << >>
    /\ NextCuratorGroupId = 1
    /\ NextClassId = 3
    /\ NextEntityId = 1
    /\ EntityCreationVouchers = << >>
    /\ last_call = [op |-> "genesis", err |-> Ok]

Init == Genesis(GenesisClasses)

InitTransfer == Genesis(TransferClasses)

InitVector == Genesis(VectorClasses)

InitPair == Genesis(PairClasses)

InitRegistry == Genesis(RegistryClasses)

InitUnique == Genesis(UniqueClasses)

InitExtrinsics == Genesis(ExtrinsicsClasses)

\* a class that lets each controller create 3 of its 6 entities
InitCeiling == Genesis(VoucherClasses(6, 3))

\* the limits of the class are limits create_class accepts
InitVoucher ==
    \E maximum_entities_count \in 1..MaxLimit,
       per_controller_entity_creation_limit \in 0..MaxLimit :
        /\ ensure_entities_creation_limits_are_valid(
               maximum_entities_count, per_controller_entity_creation_limit) = Ok
        /\ Genesis(VoucherClasses(maximum_entities_count,
                                  per_controller_entity_creation_limit))

\* ------------------------------------------------------------- inputs

Actors == {Lead, Member(1)}

Controllers == {Lead, Member(1)}

ClassIds == {1, 2}

\* the entity ids a caller names: the ids a run can issue
EntityIds(n) == 1..n

\* the maps PropertyId -> PropertyValue over the given property ids and values
PropertyValueMaps(property_ids, values) ==
    UNION {[ids -> values] : ids \in SUBSET property_ids}

\* the single values a caller supplies
SingleValues(n) == {Bool(1)} \cup {Reference(e) : e \in EntityIds(n)}

\* the vectors of references a caller supplies, up to the length the class allows
VectorValues(n) ==
    {ReferenceVec(entity_ids, 0) :
        entity_ids \in UNION {[1..len -> EntityIds(n)] : len \in 0..2}}

\* the property values a caller supplies where vectors are stored
VectorInputs(n) == VectorValues(n) \cup {Bool(1)}

\* the entities an operation of a batch names
ParametrizedEntities(n) ==
    {ExistingEntity(e) : e \in EntityIds(n)} \cup {InternalEntityJustAdded(0)}

\* the property values an operation of a batch carries
ParametrizedPropertyValueMaps ==
    PropertyValueMaps({0}, {PlainPropertyValue(Reference(1)), PlainPropertyValue(Bool(1)),
                            InternalReference(0)})

Operations(n) ==
    {CreateEntityOperation(class_id) : class_id \in ClassIds}
    \cup {AddSchemaSupportToEntityOperation(entity_id, 0, values) :
            entity_id \in ParametrizedEntities(n), values \in ParametrizedPropertyValueMaps}
    \cup {UpdatePropertyValuesOperation(entity_id, values) :
            entity_id \in ParametrizedEntities(n), values \in ParametrizedPropertyValueMaps}

\* the batches of one up to MaxOps operations
Batches(n) == UNION {[1..len -> Operations(n)] : len \in 1..MaxOps}

\* the curator groups and curators a caller names
CuratorGroupIds(n) == 1..n

CuratorIds == {1}

\* the classes a caller names where classes are created
RegistryClassIds == 1..MaxClassId

\* Option<T> over the given values
Options(values) == {None} \cup {Some(v) : v \in values}

\* the names and descriptions of a class: too short, valid, too long
ClassNames == {"", "c", "cls"}

ClassDescriptions == {"", "d2"}

\* the limits of a class: valid, and per controller not below the whole
ClassLimits == {<<2, 1>>, <<1, 1>>}

\* the properties of a new schema: a name the class of the genesis holds, a
\* new name, a vector longer than VecMaxLengthConstraint, a reference to a
\* class that is not stored
NewProperties ==
    {Property("flag", BoolType, FALSE, FALSE), Property("more", BoolType, FALSE, FALSE),
     Property("", BoolType, FALSE, FALSE), Property("also", SingleRefType(2, FALSE), FALSE, FALSE),
     Property("long", VecRefType(1, FALSE, 3), FALSE, FALSE),
     Property("far", SingleRefType(9, FALSE), FALSE, FALSE)}

NewPropertyLists ==
    {<<>>} \cup {<<p>> : p \in NewProperties}
           \cup {<<Property("more", BoolType, FALSE, FALSE), p>> : p \in NewProperties}

ExistingPropertyLists == {<<>>, <<0>>, <<1>>, <<0, 0>>, <<3>>}

\* ------------------------------------------------------------- actions

CountersWithin(s, max_counter) ==
    /\ \A e \in DOMAIN s.EntityById :
          /\ s.EntityById[e].reference_count \in -max_counter..max_counter
          /\ s.EntityById[e].inbound_same_owner_references_from_other_entities_count
                 \in -max_counter..max_counter
          /\ \A id \in DOMAIN s.EntityById[e].values :
                 s.EntityById[e].values[id].nonce <= max_counter
    /\ \A c \in DOMAIN s.ClassById :
          s.ClassById[c].current_number_of_entities >= -max_counter

CountersInBound(s) == CountersWithin(s, MaxCounter)

\* The storage the handler left is stored.  last_call is the last call that
\* returned Ok or changed the storage: a call that returns an error and leaves
\* the storage as it was leaves no trace.
Stored(op, r) ==
    /\ CuratorGroupById' = r.s.CuratorGroupById
    /\ ClassById' = r.s.ClassById
    /\ EntityById' = r.s.EntityById
    /\ NextCuratorGroupId' = r.s.NextCuratorGroupId
    /\ NextClassId' = r.s.NextClassId
    /\ NextEntityId' = r.s.NextEntityId
    /\ EntityCreationVouchers' = r.s.EntityCreationVouchers
    /\ last_call' = IF r.err = Ok \/ r.s # Storage THEN [op |-> op, err |-> r.err]
                    ELSE last_call

Commit(op, r) == CountersInBound(r.s) /\ Stored(op, r)

\* the same where vectors of references are stored
CommitVector(op, r) == CountersWithin(r.s, MaxVectorCounter) /\ Stored(op, r)

CreateEntity(n) ==
    \E actor \in Actors, class_id \in ClassIds :
        /\ NextEntityId <= n
        /\ Commit("create_entity", create_entity(Storage, class_id, actor))

RemoveEntity(n) ==
    \E actor \in Actors, entity_id \in EntityIds(n) :
        Commit("remove_entity", remove_entity(Storage, actor, entity_id))

UpdateEntityCreationVoucher ==
    \E origin \in Actors, class_id \in ClassIds, controller \in Controllers,
       maximum_entities_count \in 0..MaxLimit :
        Commit("update_entity_creation_voucher",
               update_entity_creation_voucher(Storage, origin, class_id, controller,
                                              maximum_entities_count))

AddSchemaSupportToEntity(n, property_ids) ==
    \E actor \in Actors, entity_id \in EntityIds(n), schema_id \in {0, 1},
       property_values \in PropertyValueMaps(property_ids, SingleValues(n)) :
        Commit("add_schema_support_to_entity",
               add_schema_support_to_entity(Storage, actor, entity_id, schema_id,
                                            property_values))

UpdateEntityPropertyValues(n, property_ids) ==
    \E actor \in Actors, entity_id \in EntityIds(n),
       new_property_values \in PropertyValueMaps(property_ids, SingleValues(n)) :
        Commit("update_entity_property_values",
               update_entity_property_values(Storage, actor, entity_id,
                                             new_property_values))

TransferEntityOwnership(n) ==
    \E origin \in Actors, entity_id \in EntityIds(n), new_controller \in Controllers :
        Commit("transfer_entity_ownership",
               transfer_entity_ownership(Storage, origin, entity_id, new_controller))

Transaction(n) ==
    \E actor \in Actors, operations \in Batches(n) :
        /\ NextEntityId <= n
        /\ Commit("transaction", transaction(Storage, actor, operations))

UpdateCeilingVoucher ==
    \E origin \in Actors, controller \in Controllers,
       maximum_entities_count \in 0..MaxCeilingEntityId :
        Commit("update_entity_creation_voucher",
               update_entity_creation_voucher(Storage, origin, 1, controller,
                                              maximum_entities_count))

CreateVectorEntity ==
    \E actor \in Actors :
        /\ NextEntityId <= MaxVectorEntityId
        /\ CommitVector("create_entity", create_entity(Storage, 1, actor))

AddVectorSchemaSupportToEntity ==
    \E actor \in Actors, entity_id \in EntityIds(MaxVectorEntityId), schema_id \in {0, 1},
       property_values \in PropertyValueMaps({0, 1}, VectorInputs(MaxVectorEntityId)) :
        CommitVector("add_schema_support_to_entity",
                     add_schema_support_to_entity(Storage, actor, entity_id, schema_id,
                                                  property_values))

UpdateVectorPropertyValues ==
    \E actor \in Actors, entity_id \in EntityIds(MaxVectorEntityId),
       new_property_values \in PropertyValueMaps({0, 1}, VectorInputs(MaxVectorEntityId)) :
        CommitVector("update_entity_property_values",
                     update_entity_property_values(Storage, actor, entity_id,
                                                   new_property_values))

ClearEntityPropertyVector ==
    \E actor \in Actors, entity_id \in EntityIds(MaxVectorEntityId),
       in_class_schema_property_id \in {0, 1} :
        CommitVector("clear_entity_property_vector",
                     clear_entity_property_vector(Storage, actor, entity_id,
                                                  in_class_schema_property_id))

RemoveAtEntityPropertyVector ==
    \E actor \in Actors, entity_id \in EntityIds(MaxVectorEntityId),
       in_class_schema_property_id \in {0, 1}, index_in_property_vec \in 0..2,
       nonce \in 0..MaxVectorCounter :
        CommitVector("remove_at_entity_property_vector",
                     remove_at_entity_property_vector(Storage, actor, entity_id,
                         in_class_schema_property_id, index_in_property_vec, nonce))

InsertAtEntityPropertyVector ==
    \E actor \in Actors, entity_id \in EntityIds(MaxVectorEntityId),
       in_class_schema_property_id \in {0, 1}, index_in_property_vec \in 0..2,
       property_value \in SingleValues(MaxVectorEntityId), nonce \in 0..MaxVectorCounter :
        CommitVector("insert_at_entity_property_vector",
                     insert_at_entity_property_vector(Storage, actor, entity_id,
                         in_class_schema_property_id, index_in_property_vec,
                         property_value, nonce))

UpdateVectorSchemaStatus ==
    \E origin \in Actors, schema_id \in {0, 1}, schema_status \in BOOLEAN :
        CommitVector("update_class_schema_status",
                     update_class_schema_status(Storage, origin, 1, schema_id,
                                                schema_status))

\* the same calls of the lead where two entities are stored
CreatePairEntity ==
        /\ NextEntityId <= MaxPairEntityId
        /\ CommitVector("create_entity", create_entity(Storage, 1, Lead))

AddPairSchemaSupportToEntity ==
    \E entity_id \in EntityIds(MaxPairEntityId),
       property_values \in PropertyValueMaps({0}, VectorValues(MaxPairEntityId)) :
        CommitVector("add_schema_support_to_entity",
                     add_schema_support_to_entity(Storage, Lead, entity_id, 0,
                                                  property_values))

UpdatePairPropertyValues ==
    \E entity_id \in EntityIds(MaxPairEntityId),
       new_property_values \in PropertyValueMaps({0}, VectorValues(MaxPairEntityId)) :
        CommitVector("update_entity_property_values",
                     update_entity_property_values(Storage, Lead, entity_id,
                                                   new_property_values))

ClearPairPropertyVector ==
    \E entity_id \in EntityIds(MaxPairEntityId) :
        CommitVector("clear_entity_property_vector",
                     clear_entity_property_vector(Storage, Lead, entity_id, 0))

RemoveAtPairPropertyVector ==
    \E entity_id \in EntityIds(MaxPairEntityId),
       index_in_property_vec \in 0..2, nonce \in 0..MaxVectorCounter :
        CommitVector("remove_at_entity_property_vector",
                     remove_at_entity_property_vector(Storage, Lead, entity_id, 0,
                         index_in_property_vec, nonce))

InsertAtPairPropertyVector ==
    \E entity_id \in EntityIds(MaxPairEntityId),
       index_in_property_vec \in 0..2,
       property_value \in SingleValues(MaxPairEntityId), nonce \in 0..MaxVectorCounter :
        CommitVector("insert_at_entity_property_vector",
                     insert_at_entity_property_vector(Storage, Lead, entity_id, 0,
                         index_in_property_vec, property_value, nonce))

\* Entities of one class whose two reference properties point at each other.
Next ==
    \/ CreateEntity(MaxEntityId)
    \/ RemoveEntity(MaxEntityId)
    \/ AddSchemaSupportToEntity(MaxEntityId, {0, 1})
    \/ UpdateEntityPropertyValues(MaxEntityId, {0, 1})
    \/ TransferEntityOwnership(MaxEntityId)

Spec == Init /\ [][Next]_vars

\* Chains of same_controller references across two classes.
NextTransfer ==
    \/ CreateEntity(MaxWalkEntityId)
    \/ AddSchemaSupportToEntity(MaxWalkEntityId, {0})
    \/ TransferEntityOwnership(MaxWalkEntityId)

SpecTransfer == InitTransfer /\ [][NextTransfer]_vars

\* Entity creation under vouchers.
NextVoucher ==
    \/ CreateEntity(MaxEntityId)
    \/ UpdateEntityCreationVoucher
    \/ RemoveEntity(MaxEntityId)

SpecVoucher == InitVoucher /\ [][NextVoucher]_vars

\* A voucher used up to the limit of its class.
NextCeiling ==
    \/ CreateEntity(MaxCeilingEntityId)
    \/ UpdateCeilingVoucher

SpecCeiling == InitCeiling /\ [][NextCeiling]_vars

\* Vectors of references and the operations on them.
NextVector ==
    \/ CreateVectorEntity
    \/ AddVectorSchemaSupportToEntity
    \/ UpdateVectorPropertyValues
    \/ ClearEntityPropertyVector
    \/ RemoveAtEntityPropertyVector
    \/ InsertAtEntityPropertyVector

SpecVector == InitVector /\ [][NextVector]_vars

\* Two entities with vectors of references to each other.
NextPair ==
    \/ CreatePairEntity
    \/ AddPairSchemaSupportToEntity
    \/ RemoveAtPairPropertyVector
    \/ InsertAtPairPropertyVector

SpecPair == InitPair /\ [][NextPair]_vars

NextReplace ==
    \/ CreatePairEntity
    \/ AddPairSchemaSupportToEntity
    \/ UpdatePairPropertyValues
    \/ RemoveAtPairPropertyVector

SpecReplace == InitPair /\ [][NextReplace]_vars

\* Schemas that are switched off and on while entities come to support them.
NextStatus ==
    \/ CreateVectorEntity
    \/ AddVectorSchemaSupportToEntity
    \/ UpdateVectorSchemaStatus

SpecStatus == InitVector /\ [][NextStatus]_vars

\* Batches.
NextTransaction == Transaction(MaxEntityId)

SpecTransaction == Init /\ [][NextTransaction]_vars

\* the same where curator groups and classes are added
CommitRegistry(op, r) ==
    /\ CountersInBound(r.s)
    /\ \A g \in DOMAIN r.s.CuratorGroupById :
           r.s.CuratorGroupById[g].classes_under_maintenance
               \in -MaxMaintained..MaxMaintained
    /\ Stored(op, r)

AddCuratorGroup(n) ==
    \E origin \in Actors :
        /\ NextCuratorGroupId <= n
        /\ CommitRegistry("add_curator_group", add_curator_group(Storage, origin))

RemoveCuratorGroup(n) ==
    \E origin \in Actors, curator_group_id \in CuratorGroupIds(n) :
        CommitRegistry("remove_curator_group",
                       remove_curator_group(Storage, origin, curator_group_id))

SetCuratorGroupStatus(n) ==
    \E origin \in Actors, curator_group_id \in CuratorGroupIds(n), is_active \in BOOLEAN :
        CommitRegistry("set_curator_group_status",
                       set_curator_group_status(Storage, origin, curator_group_id,
                                                is_active))

AddCuratorToGroup(n) ==
    \E origin \in Actors, curator_group_id \in CuratorGroupIds(n),
       curator_id \in CuratorIds :
        CommitRegistry("add_curator_to_group",
                       add_curator_to_group(Storage, origin, curator_group_id, curator_id))

RemoveCuratorFromGroup(n) ==
    \E origin \in Actors, curator_group_id \in CuratorGroupIds(n),
       curator_id \in CuratorIds :
        CommitRegistry("remove_curator_from_group",
                       remove_curator_from_group(Storage, origin, curator_group_id,
                                                 curator_id))

AddMaintainerToClass(class_ids, n) ==
    \E origin \in Actors, class_id \in class_ids, curator_group_id \in CuratorGroupIds(n) :
        CommitRegistry("add_maintainer_to_class",
                       add_maintainer_to_class(Storage, origin, class_id, curator_group_id))

RemoveMaintainerFromClass(class_ids, n) ==
    \E origin \in Actors, class_id \in class_ids, curator_group_id \in CuratorGroupIds(n) :
        CommitRegistry("remove_maintainer_from_class",
                       remove_maintainer_from_class(Storage, origin, class_id,
                                                    curator_group_id))

CreateClass(max_class_id, any_members, n) ==
    \E origin \in Actors, name \in ClassNames, description \in ClassDescriptions,
       any_member \in any_members, maintainers \in SUBSET CuratorGroupIds(n),
       limits \in ClassLimits :
        /\ NextClassId <= max_class_id
        /\ CommitRegistry("create_class",
                          create_class(Storage, origin, name, description,
                                       ClassPermissions(any_member, maintainers),
                                       limits[1], limits[2]))

UpdateClassPermissions(class_ids, flags, n) ==
    \E origin \in Actors, class_id \in class_ids,
       updated_any_member \in Options(flags),
       updated_entity_creation_blocked \in Options(flags),
       updated_all_entity_property_values_locked \in Options(flags),
       updated_maintainers \in Options(SUBSET CuratorGroupIds(n)) :
        CommitRegistry("update_class_permissions",
                       update_class_permissions(Storage, origin, class_id,
                           updated_any_member, updated_entity_creation_blocked,
                           updated_all_entity_property_values_locked, updated_maintainers))

AddClassSchema(class_ids) ==
    \E origin \in Actors, class_id \in class_ids,
       existing_properties \in ExistingPropertyLists,
       new_properties \in NewPropertyLists :
        /\ Len(class_by_id(Storage, class_id).schemas) < MaxSchemas
        /\ CommitRegistry("add_class_schema",
                          add_class_schema(Storage, origin, class_id, existing_properties,
                                           new_properties))

UpdateClassSchemaStatus(class_ids) ==
    \E origin \in Actors, class_id \in class_ids, schema_id \in 0..MaxSchemas,
       schema_status \in BOOLEAN :
        CommitRegistry("update_class_schema_status",
                       update_class_schema_status(Storage, origin, class_id, schema_id,
                                                  schema_status))

UpdateEntityPermissions(n) ==
    \E origin \in Actors, entity_id \in EntityIds(n),
       updated_frozen_for_controller \in Options(BOOLEAN),
       updated_referenceable \in Options(BOOLEAN) :
        CommitRegistry("update_entity_permissions",
                       update_entity_permissions(Storage, origin, entity_id,
                           updated_frozen_for_controller, updated_referenceable))

CreateRegistryEntity(class_ids, n) ==
    \E actor \in Actors, class_id \in class_ids :
        /\ NextEntityId <= n
        /\ CommitRegistry("create_entity", create_entity(Storage, class_id, actor))

RemoveRegistryEntity(n) ==
    \E actor \in Actors, entity_id \in EntityIds(n) :
        CommitRegistry("remove_entity", remove_entity(Storage, actor, entity_id))

\* Curator groups and the maintainers of classes.
NextGroups ==
    \/ AddCuratorGroup(MaxCuratorGroupId)
    \/ RemoveCuratorGroup(MaxCuratorGroupId)
    \/ AddMaintainerToClass(RegistryClassIds, MaxCuratorGroupId)
    \/ RemoveMaintainerFromClass(RegistryClassIds, MaxCuratorGroupId)
    \/ UpdateClassPermissions(RegistryClassIds, {}, MaxCuratorGroupId)
    \/ CreateClass(MaxClassId, {TRUE}, MaxCuratorGroupId)

SpecGroups == InitRegistry /\ [][NextGroups]_vars

\* Classes and their schemas.
NextSchemas ==
    \/ CreateClass(MaxClassId, BOOLEAN, 0)
    \/ AddClassSchema(RegistryClassIds)
    \/ UpdateClassSchemaStatus(RegistryClassIds)

SpecSchemas == InitRegistry /\ [][NextSchemas]_vars

\* An entity with values and references to itself, a curator group that
\* maintains the class of the entity, and the flags of the class.
NextExtrinsics ==
    \/ AddCuratorGroup(MaxExtrinsicsGroupId)
    \/ RemoveCuratorGroup(MaxExtrinsicsGroupId)
    \/ AddMaintainerToClass({1}, MaxExtrinsicsGroupId)
    \/ RemoveMaintainerFromClass({1}, MaxExtrinsicsGroupId)
    \/ UpdateClassPermissions({1}, {TRUE}, 0)
    \/ CreateVectorEntity
    \/ AddVectorSchemaSupportToEntity
    \/ RemoveEntity(MaxVectorEntityId)

SpecExtrinsics == InitExtrinsics /\ [][NextExtrinsics]_vars

\* A class that comes to be locked while controllers and a curator of a
\* maintainer group hold access to its entities.
NextLock ==
    \/ AddCuratorGroup(MaxExtrinsicsGroupId)
    \/ SetCuratorGroupStatus(MaxExtrinsicsGroupId)
    \/ AddCuratorToGroup(MaxExtrinsicsGroupId)
    \/ AddMaintainerToClass({1}, MaxExtrinsicsGroupId)
    \/ UpdateClassPermissions({1}, {TRUE}, 0)
    \/ CreateVectorEntity
    \/ AddVectorSchemaSupportToEntity

SpecLock == InitVector /\ [][NextLock]_vars

\* Entities of a class with a unique property.
NextUnique ==
    \/ CreateEntity(MaxEntityId)
    \/ RemoveEntity(MaxEntityId)
    \/ AddSchemaSupportToEntity(MaxEntityId, {0, 1})
    \/ UpdateEntityPropertyValues(MaxEntityId, {0, 1})

SpecUnique == InitUnique /\ [][NextUnique]_vars

\* Curator groups, classes and entities added and removed.
NextIds ==
    \/ AddCuratorGroup(MaxCuratorGroupId)
    \/ RemoveCuratorGroup(MaxCuratorGroupId)
    \/ CreateClass(MaxIssuedClassId, BOOLEAN, 0)
    \/ CreateRegistryEntity(1..MaxIssuedClassId, MaxRegistryEntityId)
    \/ RemoveRegistryEntity(MaxRegistryEntityId)

SpecIds == InitRegistry /\ [][NextIds]_vars

\* ---------------------------------------------------------- properties

\* the slots <<entity, property id, position>> of stored property values that
\* hold a reference to entity_id
ReferenceSlots(s, entity_id) ==
    {slot \in UNION {UNION {{<<x, id, i>> :
                               i \in DOMAIN get_involved_entities(s.EntityById[x].values[id])} :
                            id \in DOMAIN s.EntityById[x].values} :
                     x \in DOMAIN s.EntityById} :
        get_involved_entities(s.EntityById[slot[1]].values[slot[2]])[slot[3]] = entity_id}

\* the stored property value of entity x under id belongs to a property whose
\* type has same_controller set
IsSameControllerProperty(s, x, id) ==
    LET class == class_by_id(s, s.EntityById[x].class_id)
    IN  has_property(class, id) /\ same_controller_status(class_property(class, id).prop_type)

SameControllerSlots(s, entity_id) ==
    {slot \in ReferenceSlots(s, entity_id) : IsSameControllerProperty(s, slot[1], slot[2])}

\* the entities a stored entity references from same_controller properties
SameControllerTargets(s, x) ==
    IF x \notin DOMAIN s.EntityById THEN {}
    ELSE UNION {Range(get_involved_entities(s.EntityById[x].values[id])) :
                  id \in {id \in DOMAIN s.EntityById[x].values :
                             IsSameControllerProperty(s, x, id)}}

\* the entities reachable from the frontier along same_controller references
RECURSIVE ReachableFrom(_, _, _)
ReachableFrom(s, frontier, seen) ==
    IF frontier \subseteq seen THEN seen
    ELSE ReachableFrom(s, UNION {SameControllerTargets(s, x) : x \in frontier},
                       seen \cup frontier)

\* C1: in every reachable state, the reference_count of every stored entity is
\* the number of reference occurrences that point to it in the property values
\* of all stored entities, and its same-owner counter is the number of those
\* occurrences held in same_controller properties.
C1_CountersMatchReferences ==
    \A e \in DOMAIN EntityById :
        /\ EntityById[e].reference_count = Cardinality(ReferenceSlots(Storage, e))
        /\ EntityById[e].inbound_same_owner_references_from_other_entities_count =
               Cardinality(SameControllerSlots(Storage, e))

\* C2: in every reachable state, the same-owner counter of every stored entity
\* is at most its reference_count (as the unsigned numbers they are).
C2_SameOwnerCountAtMostReferenceCount ==
    \A e \in DOMAIN EntityById :
        ~ULess(EntityById[e].reference_count,
               EntityById[e].inbound_same_owner_references_from_other_entities_count)

\* C3: in every reachable state, a reference stored in a same_controller
\* property connects two stored entities with the same controller.
C3_SameControllerReferencesShareController ==
    \A x \in DOMAIN EntityById, e \in DOMAIN EntityById :
        (\E slot \in SameControllerSlots(Storage, e) : slot[1] = x)
            => EntityById[x].controller = EntityById[e].controller

\* C4: a transfer_entity_ownership that returns Ok leaves the root and every
\* entity reachable from it along same_controller references, over any number
\* of hops and across classes, stored under the new controller.
C4_TransferReachesAllSameControllerEntities ==
    \A origin \in Actors, entity_id \in DOMAIN EntityById, new_controller \in Controllers :
        LET r == transfer_entity_ownership(Storage, origin, entity_id, new_controller)
        IN  r.err = Ok =>
                \A e \in ReachableFrom(r.s, {entity_id}, {}) :
                    /\ e \in DOMAIN r.s.EntityById
                    /\ r.s.EntityById[e].controller = new_controller

\* a transfer has moved a chain of three entities, created by the lead in two
\* classes, to the member
C4_Witness ==
    /\ last_call = [op |-> "transfer_entity_ownership", err |-> Ok]
    /\ \A key \in DOMAIN EntityCreationVouchers : key[2] = Lead
    /\ \E a, b, c \in DOMAIN EntityById :
          /\ Cardinality({a, b, c}) = 3
          /\ EntityById[a].class_id = 1 /\ EntityById[b].class_id = 2
          /\ ReachableFrom(Storage, {a}, {}) = {a, b, c}
          /\ SameControllerTargets(Storage, a) = {b}
          /\ SameControllerTargets(Storage, b) = {c}
          /\ \A e \in {a, b, c} : EntityById[e].controller = Member(1)

\* C5: in every reachable state, the counter of every stored class is the
\* number of stored entities of that class and is at most the class maximum.
C5_ClassCounterMatchesEntities ==
    \A c \in DOMAIN ClassById :
        /\ ClassById[c].current_number_of_entities =
               Cardinality({e \in DOMAIN EntityById : EntityById[e].class_id = c})
        /\ ~ULess(ClassById[c].maximum_entities_count,
                  ClassById[c].current_number_of_entities)

\* C6: in every reachable state, every stored voucher has entities_created at
\* most maximum_entities_count, under every pair of class limits that
\* create_class accepts.
C6_VoucherCreatedAtMostMaximum ==
    \A key \in DOMAIN EntityCreationVouchers :
        ~ULess(EntityCreationVouchers[key].maximum_entities_count,
               EntityCreationVouchers[key].entities_created)

\* C7: in every reachable state, every stored voucher has a maximum of at most
\* the per-controller limit of its class, and update_entity_creation_voucher
\* with a maximum above that limit returns an error and leaves the storage,
\* the voucher included, as it was.
C7_VoucherMaximumWithinClassLimit ==
    /\ \A key \in DOMAIN EntityCreationVouchers :
          ~ULess(class_by_id(Storage, key[1]).per_controller_entity_creation_limit,
                 EntityCreationVouchers[key].maximum_entities_count)
    /\ \A origin \in Actors, class_id \in DOMAIN ClassById, controller \in Controllers,
          maximum_entities_count \in 0..MaxLimit + 1 :
          LET r == update_entity_creation_voucher(Storage, origin, class_id, controller,
                                                  maximum_entities_count)
          IN  ULess(ClassById[class_id].per_controller_entity_creation_limit,
                    maximum_entities_count)
                  => r.err # Ok /\ r.s = Storage

\* the lead has set a voucher to the limit of its class, and setting it one
\* higher is refused
C7_Witness ==
    /\ last_call = [op |-> "update_entity_creation_voucher", err |-> Ok]
    /\ \E key \in DOMAIN EntityCreationVouchers :
          LET limit == ClassById[key[1]].per_controller_entity_creation_limit
              r == update_entity_creation_voucher(Storage, Lead, key[1], key[2], limit + 1)
          IN  /\ limit > 0
              /\ EntityCreationVouchers[key].maximum_entities_count = limit
              /\ r.err = "ERROR_INDIVIDUAL_NUMBER_OF_CLASS_ENTITIES_PER_ACTOR_IS_TOO_BIG"
              /\ r.s = Storage

\* C8: remove_entity on a stored entity whose reference_count is not zero
\* returns an error (ERROR_ENTITY_RC_DOES_NOT_EQUAL_TO_ZERO once the access
\* checks pass) and leaves the storage as it was; when it returns Ok the
\* reference_count was zero, the entity is gone, the counter of its class is
\* one lower and every other entity is as it was.
C8_RemoveEntityRequiresZeroRc ==
    \A actor \in Actors, entity_id \in DOMAIN EntityById :
        LET r == remove_entity(Storage, actor, entity_id)
            entity == EntityById[entity_id]
            access == ensure_class_entity_and_access_level(Storage, entity_id, actor)
            permitted == access.err = Ok /\ ensure_group_can_remove_entity(access.level) = Ok
        IN  /\ entity.reference_count # 0 =>
                  /\ r.err # Ok
                  /\ r.s = Storage
                  /\ permitted => r.err = "ERROR_ENTITY_RC_DOES_NOT_EQUAL_TO_ZERO"
            /\ r.err = Ok =>
                  /\ entity.reference_count = 0
                  /\ DOMAIN r.s.EntityById = DOMAIN EntityById \ {entity_id}
                  /\ \A e \in DOMAIN r.s.EntityById : r.s.EntityById[e] = EntityById[e]
                  /\ class_by_id(r.s, entity.class_id).current_number_of_entities =
                         class_by_id(Storage, entity.class_id).current_number_of_entities - 1
                  /\ r.s.EntityCreationVouchers = EntityCreationVouchers
                  /\ r.s.NextEntityId = NextEntityId

\* an entity has been removed, and the removal of another entity, which is
\* referenced, is refused to its controller
C8_Witness ==
    /\ last_call = [op |-> "remove_entity", err |-> Ok]
    /\ \E actor \in Actors, entity_id \in DOMAIN EntityById :
          /\ EntityById[entity_id].controller = from_actor(actor)
          /\ EntityById[entity_id].reference_count > 0
          /\ remove_entity(Storage, actor, entity_id) =
                 Return(Storage, "ERROR_ENTITY_RC_DOES_NOT_EQUAL_TO_ZERO")

\* C9: transfer_entity_ownership on a stored entity whose same-owner counter
\* is not zero returns an error and leaves every controller (the whole
\* storage) as it was.
C9_TransferRequiresZeroSameOwnerCount ==
    \A origin \in Actors, entity_id \in DOMAIN EntityById, new_controller \in Controllers :
        LET r == transfer_entity_ownership(Storage, origin, entity_id, new_controller)
        IN  EntityById[entity_id].inbound_same_owner_references_from_other_entities_count # 0
                => /\ r.err # Ok
                   /\ r.s = Storage
                   /\ \A e \in DOMAIN EntityById :
                          entity_by_id(r.s, e).controller = EntityById[e].controller

\* a transfer has succeeded, and the lead's transfer of an entity that holds an
\* inbound same-owner reference to another controller is refused
C9_Witness ==
    /\ last_call = [op |-> "transfer_entity_ownership", err |-> Ok]
    /\ \E entity_id \in DOMAIN EntityById, new_controller \in Controllers :
          /\ EntityById[entity_id].inbound_same_owner_references_from_other_entities_count > 0
          /\ new_controller # EntityById[entity_id].controller
          /\ transfer_entity_ownership(Storage, Lead, entity_id, new_controller) =
                 Return(Storage, "ERROR_ENTITY_RC_DOES_NOT_EQUAL_TO_ZERO")

\* C10: a transaction that returns an error leaves the storage (entities,
\* values, reference counters, vouchers, class counters, NextEntityId) as it
\* was before the call.
C10_FailedTransactionLeavesStorage ==
    \A actor \in Actors, operations \in Batches(MaxEntityId) :
        LET r == transaction(Storage, actor, operations)
        IN  r.err # Ok => r.s = Storage

\* the batch indices an operation names, as its target or in its values
NamedIndices(operation) ==
    {entity \in {operation.entity_id} : entity[1] = "InternalEntityJustAdded"}
    \cup UNION {{operation.values[id].ids[j] : j \in DOMAIN operation.values[id].ids} :
                  id \in DOMAIN operation.values}

\* every index the operation at position k names is the index of a
\* CreateEntity operation earlier in the batch
Resolvable(operations, k) ==
    \A entity \in NamedIndices(operations[k]) :
        \/ entity[1] = "ExistingEntity"
        \/ /\ entity[2] + 1 < k
           /\ operations[entity[2] + 1].type = "CreateEntity"

\* the id under which the CreateEntity operation at op_index stores its entity:
\* NextEntityId as the operations before it leave it
CreatedEntityId(s, actor, operations, op_index) ==
    transaction(s, actor, SubSeq(operations, 1, op_index)).s.NextEntityId

ResolvedEntity(s, actor, operations, entity) ==
    IF entity[1] = "ExistingEntity" THEN entity
    ELSE ExistingEntity(CreatedEntityId(s, actor, operations, entity[2]))

ResolvedValue(s, actor, operations, value) ==
    IF value.p = "PropertyValue" THEN value
    ELSE IF value.p = "InternalEntityJustAdded"
         THEN PlainPropertyValue(
                  Reference(ResolvedEntity(s, actor, operations, value.ids[1])[2]))
    ELSE PlainPropertyValue(
             ReferenceVec([j \in DOMAIN value.ids |->
                              ResolvedEntity(s, actor, operations, value.ids[j])[2]], 0))

\* the batch with every batch index replaced by the id of the entity the
\* CreateEntity operation at that index stores
ResolvedOperations(s, actor, operations) ==
    [k \in DOMAIN operations |->
        [operations[k] EXCEPT
            !.entity_id = ResolvedEntity(s, actor, operations, @),
            !.values = [id \in DOMAIN @ |->
                           ResolvedValue(s, actor, operations, @[id])]]]

VectorSlots(s) ==
    UNION {{<<e, id>> : id \in {id \in DOMAIN s.EntityById[e].values :
                                   s.EntityById[e].values[id].kind = "Vector"}} :
           e \in DOMAIN s.EntityById}

\* the checks that precede the comparison of the nonce pass for the actor
MayWriteVector(s, actor, slot) ==
    LET access == ensure_class_entity_and_access_level(s, slot[1], actor)
        class == class_by_id(s, entity_by_id(s, slot[1]).class_id)
    IN  /\ access.err = Ok
        /\ ensure_class_property_type_unlocked_for(class, slot[2], access.level) = Ok

\* insert_at and remove_at with a nonce other than the one the vector holds
\* return an error (NonceMismatch once the access checks pass) and leave the
\* storage as it was
StaleNonceRefused ==
    \A actor \in Actors, slot \in VectorSlots(Storage), nonce \in 0..MaxVectorCounter + 1,
       index_in_property_vec \in 0..2, property_value \in SingleValues(MaxVectorEntityId) :
        LET removed == remove_at_entity_property_vector(Storage, actor, slot[1], slot[2],
                           index_in_property_vec, nonce)
            inserted == insert_at_entity_property_vector(Storage, actor, slot[1], slot[2],
                            index_in_property_vec, property_value, nonce)
        IN  nonce # EntityById[slot[1]].values[slot[2]].nonce =>
                /\ removed.err # Ok /\ removed.s = Storage
                /\ inserted.err # Ok /\ inserted.s = Storage
                /\ MayWriteVector(Storage, actor, slot) =>
                       removed.err = "NonceMismatch" /\ inserted.err = "NonceMismatch"

\* a step keeps every stored vector stored with a nonce that is not lower, and a
\* successful insert_at or remove_at leaves the vector it changed with the nonce
\* one higher
NonceAdvances ==
    \A slot \in VectorSlots(Storage) :
        /\ slot \in VectorSlots(Storage')
        /\ EntityById'[slot[1]].values[slot[2]].nonce >=
               EntityById[slot[1]].values[slot[2]].nonce
        /\ (/\ last_call'.op \in {"insert_at_entity_property_vector",
                                  "remove_at_entity_property_vector"}
            /\ last_call'.err = Ok
            /\ EntityById'[slot[1]].values[slot[2]] # EntityById[slot[1]].values[slot[2]])
           => EntityById'[slot[1]].values[slot[2]].nonce =
                  EntityById[slot[1]].values[slot[2]].nonce + 1

\* C12: a successful insert_at or remove_at raises the nonce of its vector by
\* one and no later step lowers it, and in every state insert_at and remove_at
\* with a nonce other than the current one (so with any nonce the vector had
\* before) fail, with NonceMismatch for a caller who passes the access checks,
\* and change neither the vector nor any reference counter.
C12_StaleNonceRefused == []StaleNonceRefused /\ [][NonceAdvances]_vars

\* an insert_at or remove_at has succeeded on a vector that now holds nonce 2,
\* and its controller's remove_at and insert_at with the nonces 0 and 1 it held
\* before are refused with NonceMismatch
C12_Witness ==
    /\ last_call.op \in {"insert_at_entity_property_vector",
                         "remove_at_entity_property_vector"}
    /\ last_call.err = Ok
    /\ \E slot \in VectorSlots(Storage), actor \in Actors :
          /\ EntityById[slot[1]].controller = from_actor(actor)
          /\ EntityById[slot[1]].values[slot[2]].nonce = 2
          /\ Len(EntityById[slot[1]].values[slot[2]].vec) = 1
          /\ \A nonce \in {0, 1} :
                /\ remove_at_entity_property_vector(Storage, actor, slot[1], slot[2], 0, nonce)
                       = Return(Storage, "NonceMismatch")
                /\ insert_at_entity_property_vector(Storage, actor, slot[1], slot[2], 0,
                                                    Reference(slot[1]), nonce)
                       = Return(Storage, "NonceMismatch")

\* the voucher of the actor's controller in the class holds the limit of the
\* class as its maximum and as many created entities, and nothing but the
\* voucher stands against a further entity
VoucherUsedUp(s, class_id, actor) ==
    LET key == <<class_id, from_actor(actor)>>
        class == class_by_id(s, class_id)
    IN  /\ key \in DOMAIN s.EntityCreationVouchers
        /\ s.EntityCreationVouchers[key].maximum_entities_count =
               class.per_controller_entity_creation_limit
        /\ s.EntityCreationVouchers[key].entities_created =
               class.per_controller_entity_creation_limit
        /\ ensure_maximum_entities_count_limit_not_reached(class) = Ok
        /\ ensure_can_create_entities(s, class.class_permissions, actor) = Ok

\* C13, as the code has it: when a controller has created as many entities of
\* a class as its voucher and the class limit allow, its next create_entity
\* returns ERROR_VOUCHER_LIMIT_REACHED and changes nothing, and the lead's
\* update_entity_creation_voucher with a maximum above the class limit returns
\* ERROR_INDIVIDUAL_NUMBER_OF_CLASS_ENTITIES_PER_ACTOR_IS_TOO_BIG and changes
\* nothing, so that the controller creates no further entity.
C13_VoucherNotRaisedAboveClassLimit ==
    \A actor \in Actors, class_id \in DOMAIN ClassById :
        VoucherUsedUp(Storage, class_id, actor) =>
            /\ create_entity(Storage, class_id, actor) =
                   Return(Storage, "ERROR_VOUCHER_LIMIT_REACHED")
            /\ \A raise \in 1..2 :
                   update_entity_creation_voucher(Storage, Lead, class_id, from_actor(actor),
                       ClassById[class_id].per_controller_entity_creation_limit + raise) =
                   Return(Storage,
                          "ERROR_INDIVIDUAL_NUMBER_OF_CLASS_ENTITIES_PER_ACTOR_IS_TOO_BIG")

\* the member has created three entities of the class with limit 3; the fourth
\* is refused, and so is the lead's raise of the voucher to 5
C13_Witness ==
    /\ last_call = [op |-> "create_entity", err |-> Ok]
    /\ VoucherUsedUp(Storage, 1, Member(1))
    /\ ClassById[1].per_controller_entity_creation_limit = 3
    /\ Cardinality({e \in DOMAIN EntityById : EntityById[e].controller = Member(1)}) = 3
    /\ create_entity(Storage, 1, Member(1)).err = "ERROR_VOUCHER_LIMIT_REACHED"
    /\ update_entity_creation_voucher(Storage, Lead, 1, Member(1), 5).err =
           "ERROR_INDIVIDUAL_NUMBER_OF_CLASS_ENTITIES_PER_ACTOR_IS_TOO_BIG"

\* C13, as stated: in that situation the lead's update_entity_creation_voucher
\* raising the maximum by two succeeds, after which the controller creates two
\* more entities and is refused the third.
C13_VoucherRaisedAboveClassLimit ==
    \A actor \in Actors, class_id \in DOMAIN ClassById :
        VoucherUsedUp(Storage, class_id, actor) =>
            LET raised == update_entity_creation_voucher(Storage, Lead, class_id,
                              from_actor(actor),
                              ClassById[class_id].per_controller_entity_creation_limit + 2)
                first == create_entity(raised.s, class_id, actor)
                second == create_entity(first.s, class_id, actor)
                third == create_entity(second.s, class_id, actor)
            IN  /\ create_entity(Storage, class_id, actor).err = "ERROR_VOUCHER_LIMIT_REACHED"
                /\ raised.err = Ok
                /\ first.err = Ok
                /\ second.err = Ok
                /\ third.err = "ERROR_VOUCHER_LIMIT_REACHED"

\* ------------------------------------------------------------------ C14

\* the callers of an extrinsic: the lead, a member, a curator
Callers == Actors \cup {Curator(1, 1)}

\* The outcomes of the extrinsics of curator groups and class maintainers on
\* the storage, for every caller and every input.
CuratorGroupOutcomes(s) ==
    {add_curator_group(s, origin) : origin \in Callers}
    \cup {remove_curator_group(s, origin, g) :
              origin \in Callers, g \in CuratorGroupIds(MaxCuratorGroupId)}
    \cup {set_curator_group_status(s, origin, g, is_active) :
              origin \in Callers, g \in CuratorGroupIds(MaxCuratorGroupId),
              is_active \in BOOLEAN}
    \cup {add_curator_to_group(s, origin, g, c) :
              origin \in Callers, g \in CuratorGroupIds(MaxCuratorGroupId),
              c \in CuratorIds}
    \cup {remove_curator_from_group(s, origin, g, c) :
              origin \in Callers, g \in CuratorGroupIds(MaxCuratorGroupId),
              c \in CuratorIds}
    \cup {add_maintainer_to_class(s, origin, class_id, g) :
              origin \in Callers, class_id \in RegistryClassIds,
              g \in CuratorGroupIds(MaxCuratorGroupId)}
    \cup {remove_maintainer_from_class(s, origin, class_id, g) :
              origin \in Callers, class_id \in RegistryClassIds,
              g \in CuratorGroupIds(MaxCuratorGroupId)}

\* The same for the extrinsics of classes, schemas and vouchers.
ClassOutcomes(s) ==
    {update_entity_creation_voucher(s, origin, class_id, controller, maximum) :
        origin \in Callers, class_id \in RegistryClassIds, controller \in Controllers,
        maximum \in 0..MaxLimit}
    \cup {create_class(s, origin, name, description,
                       ClassPermissions(any_member, maintainers), limits[1], limits[2]) :
              origin \in Callers, name \in ClassNames, description \in ClassDescriptions,
              any_member \in BOOLEAN,
              maintainers \in SUBSET CuratorGroupIds(MaxCuratorGroupId),
              limits \in ClassLimits}
    \cup {update_class_permissions(s, origin, class_id, any_member, blocked, locked,
                                   maintainers) :
              origin \in Callers, class_id \in RegistryClassIds,
              any_member \in Options(BOOLEAN), blocked \in Options(BOOLEAN),
              locked \in Options(BOOLEAN),
              maintainers \in Options(SUBSET CuratorGroupIds(MaxCuratorGroupId))}
    \cup {add_class_schema(s, origin, class_id, existing_properties, new_properties) :
              origin \in Callers, class_id \in RegistryClassIds,
              existing_properties \in ExistingPropertyLists,
              new_properties \in NewPropertyLists}
    \cup {update_class_schema_status(s, origin, class_id, schema_id, schema_status) :
              origin \in Callers, class_id \in RegistryClassIds,
              schema_id \in 0..MaxSchemas, schema_status \in BOOLEAN}

\* The same for the extrinsics of entities and their values.
EntityOutcomes(s) ==
    {update_entity_permissions(s, origin, entity_id, frozen, referenceable) :
        origin \in Callers, entity_id \in EntityIds(MaxEntityId),
        frozen \in Options(BOOLEAN), referenceable \in Options(BOOLEAN)}
    \cup {transfer_entity_ownership(s, origin, entity_id, new_controller) :
              origin \in Callers, entity_id \in EntityIds(MaxEntityId),
              new_controller \in Controllers}
    \cup {create_entity(s, class_id, actor) :
              class_id \in RegistryClassIds, actor \in Callers}
    \cup {remove_entity(s, actor, entity_id) :
              actor \in Callers, entity_id \in EntityIds(MaxEntityId)}
    \cup {add_schema_support_to_entity(s, actor, entity_id, schema_id, property_values) :
              actor \in Callers, entity_id \in EntityIds(MaxEntityId),
              schema_id \in 0..2,
              property_values \in
                  PropertyValueMaps({0, 1}, VectorInputs(MaxEntityId))}
    \cup {update_entity_property_values(s, actor, entity_id, new_property_values) :
              actor \in Callers, entity_id \in EntityIds(MaxEntityId),
              new_property_values \in
                  PropertyValueMaps({0, 1}, VectorInputs(MaxEntityId))}
    \cup {clear_entity_property_vector(s, actor, entity_id, id) :
              actor \in Callers, entity_id \in EntityIds(MaxEntityId), id \in 0..2}
    \cup {remove_at_entity_property_vector(s, actor, entity_id, id, index, nonce) :
              actor \in Callers, entity_id \in EntityIds(MaxEntityId), id \in 0..2,
              index \in 0..2, nonce \in 0..MaxVectorCounter}
    \cup {insert_at_entity_property_vector(s, actor, entity_id, id, index,
                                           Reference(target), nonce) :
              actor \in Callers, entity_id \in EntityIds(MaxEntityId), id \in 0..2,
              index \in 0..2, target \in EntityIds(MaxEntityId),
              nonce \in 0..MaxVectorCounter}

\* A failed call left the storage it found and deposited no event.
FailedWithoutEffect(s, r) == r.err # Ok => r.s = s /\ r.events = <<>>

\* C14: every single (non-batch) extrinsic that returns an error leaves every
\* storage item exactly as it was before the call and emits no event.
C14_FailedExtrinsicLeavesStorage ==
    \A r \in CuratorGroupOutcomes(Storage) \cup ClassOutcomes(Storage)
                \cup EntityOutcomes(Storage) :
        FailedWithoutEffect(Storage, r)

\* A curator group that maintains class 1 and an entity that refers to itself:
\* the lead's removal of the group, the controller's removal of the entity and
\* an insertion under a nonce that is not the vector's fail after the checks
\* of origin and existence passed, and the storage is as it was.
C14_Witness ==
    /\ 1 \in DOMAIN CuratorGroupById
    /\ 1 \in DOMAIN EntityById
    /\ 0 \in DOMAIN EntityById[1].values
    /\ remove_curator_group(Storage, Lead, 1) =
           Return(Storage, "CuratorGroupRemovalForbidden")
    /\ remove_entity(Storage, EntityById[1].controller, 1) =
           Return(Storage, "ERROR_ENTITY_RC_DOES_NOT_EQUAL_TO_ZERO")
    /\ insert_at_entity_property_vector(Storage, EntityById[1].controller, 1, 0, 0,
                                         Reference(1), 1) =
           Return(Storage, "NonceMismatch")

\* ------------------------------------------------------------------ C15

\* the classes whose maintainers hold the curator group
MaintainedBy(s, curator_group_id) ==
    {class_id \in DOMAIN s.ClassById :
        curator_group_id \in s.ClassById[class_id].class_permissions.maintainers}

\* C15: remove_curator_group fails and leaves the group stored whenever the
\* group is in the maintainers of at least one class, whichever of
\* create_class, add_maintainer_to_class and update_class_permissions put it
\* there.
C15_MaintainerGroupNotRemoved ==
    \A curator_group_id \in DOMAIN CuratorGroupById :
        MaintainedBy(Storage, curator_group_id) # {}
            => LET r == remove_curator_group(Storage, Lead, curator_group_id)
               IN  /\ r.err # Ok
                   /\ curator_group_id \in DOMAIN r.s.CuratorGroupById

\* ------------------------------------------------------------------ C16

\* the properties of the entity's values that are flagged unique and hold a
\* value other than the default of a property that is not required
UniqueSlots(s, entity_id) ==
    LET entity == s.EntityById[entity_id]
        class == class_by_id(s, entity.class_id)
    IN  {id \in DOMAIN entity.values :
            /\ class_property(class, id).unique
            /\ \/ entity.values[id] # DefaultPropertyValue
               \/ class_property(class, id).required}

\* C16: after any sequence of add_schema_support_to_entity and
\* update_entity_property_values, the value an entity holds under a property
\* flagged unique differs from the value it holds under every other property,
\* except when it is the default value of a property that is not required.
C16_UniqueValuesDistinct ==
    \A entity_id \in DOMAIN EntityById :
        \A id \in UniqueSlots(Storage, entity_id) :
            \A other \in DOMAIN EntityById[entity_id].values \ {id} :
                EntityById[entity_id].values[other] # EntityById[entity_id].values[id]

\* ------------------------------------------------------------------ C17

\* the property ids of the schemas the entity supports
SupportedPropertyIds(s, entity) ==
    UNION {Range(class_by_id(s, entity.class_id).schemas[schema_id + 1].properties) :
              schema_id \in entity.supported_schemas}

\* C17: for every stored entity the keys of its values are exactly the
\* property ids of the schemas in its supported_schemas.
C17_ValuesKeysAreSchemaProperties ==
    \A entity_id \in DOMAIN EntityById :
        DOMAIN EntityById[entity_id].values =
            SupportedPropertyIds(Storage, EntityById[entity_id])

\* An entity that came to support schema 0 and then schema 1, which holds the
\* property of schema 0 and one more: the last call added the value of the
\* second property and kept the vector the first had stored.
C17_Witness ==
    /\ last_call = [op |-> "add_schema_support_to_entity", err |-> Ok]
    /\ 1 \in DOMAIN EntityById
    /\ EntityById[1].supported_schemas = {0, 1}
    /\ DOMAIN EntityById[1].values = {0, 1}
    /\ EntityById[1].values[0].vec = <<1>>
    /\ EntityById[1].values[1] = DefaultPropertyValue

\* ------------------------------------------------------------------ C18

\* the names of the properties of the class are pairwise distinct
PropertyNamesDistinct(class) ==
    \A i, j \in DOMAIN class.properties :
        i # j => class.properties[i].name # class.properties[j].name

\* every property id of every schema of the class is an index of its properties
SchemaPropertyIdsValid(class) ==
    \A k \in DOMAIN class.schemas :
        \A m \in DOMAIN class.schemas[k].properties :
            class.schemas[k].properties[m] \in 0..(Len(class.properties) - 1)

\* C18: after any sequence of add_class_schema calls, within every class the
\* property names are pairwise distinct and every property id listed in any
\* schema of the class is a valid index into the properties of the class.
C18_ClassSchemasWellFormed ==
    \A class_id \in DOMAIN ClassById :
        /\ PropertyNamesDistinct(ClassById[class_id])
        /\ SchemaPropertyIdsValid(ClassById[class_id])

\* Class 1 after two more schemas: the last call appended a third property
\* and a schema of the second and the third; a further schema that names a
\* property the class holds, or an index past its properties, is refused.
C18_Witness ==
    /\ last_call = [op |-> "add_class_schema", err |-> Ok]
    /\ Len(ClassById[1].properties) = 3
    /\ Len(ClassById[1].schemas) = 3
    /\ ClassById[1].schemas[3].properties = <<1, 2>>
    /\ add_class_schema(Storage, Lead, 1, <<0>>,
                        <<Property("more", BoolType, FALSE, FALSE)>>) =
           Return(Storage, "ERROR_PROP_NAME_NOT_UNIQUE_IN_A_CLASS")
    /\ add_class_schema(Storage, Lead, 1, <<3>>, <<>>) =
           Return(Storage, "ERROR_CLASS_SCHEMA_REFERS_UNKNOWN_PROP_INDEX")

\* ------------------------------------------------------------------ C19

\* every stored id was issued: it lies below the next id of its namespace
IssuedBelowNext ==
    /\ \A curator_group_id \in DOMAIN CuratorGroupById :
           curator_group_id < NextCuratorGroupId
    /\ \A class_id \in DOMAIN ClassById : class_id < NextClassId
    /\ \A entity_id \in DOMAIN EntityById : entity_id < NextEntityId

\* A step that changes a variable leaves its call in last_call.  A successful
\* creation raises the next id of its namespace by one and stores the new
\* item under the id the counter held; every other call, a removal included,
\* leaves the three counters as they were.
IdsIssuedOnce ==
    /\ IF last_call' = [op |-> "add_curator_group", err |-> Ok]
       THEN /\ NextCuratorGroupId' = NextCuratorGroupId + 1
            /\ DOMAIN CuratorGroupById' = DOMAIN CuratorGroupById \cup {NextCuratorGroupId}
       ELSE NextCuratorGroupId' = NextCuratorGroupId
    /\ IF last_call' = [op |-> "create_class", err |-> Ok]
       THEN /\ NextClassId' = NextClassId + 1
            /\ DOMAIN ClassById' = DOMAIN ClassById \cup {NextClassId}
       ELSE NextClassId' = NextClassId
    /\ IF last_call' = [op |-> "create_entity", err |-> Ok]
       THEN /\ NextEntityId' = NextEntityId + 1
            /\ DOMAIN EntityById' = DOMAIN EntityById \cup {NextEntityId}
       ELSE NextEntityId' = NextEntityId

\* C19: NextCuratorGroupId, NextClassId and NextEntityId never decrease and
\* grow by exactly one on each successful creation in their namespace, so no
\* id is issued twice; an EntityId freed by remove_entity is never given to a
\* later entity.
C19_IdCountersMonotone == []IssuedBelowNext /\ [][IdsIssuedOnce]_vars

\* Entity 1 and curator group 1 were removed, and the entity, the group and
\* the class created afterwards have the ids that follow, not the freed ones.
C19_Witness ==
    /\ last_call = [op |-> "create_entity", err |-> Ok]
    /\ DOMAIN EntityById = {2}
    /\ NextEntityId = 3
    /\ DOMAIN CuratorGroupById = {2}
    /\ NextCuratorGroupId = 3
    /\ DOMAIN ClassById = {1, 2, 3, 4}
    /\ NextClassId = 5

\* ------------------------------------------------------------------ C20

\* the actor passes the checks that precede the loop over the supplied values
MayUpdateValues(s, actor, entity_id) ==
    /\ ensure_class_entity_and_access_level(s, entity_id, actor).err = Ok
    /\ ~class_by_id(s, entity_by_id(s, entity_id).class_id)
            .class_permissions.all_entity_property_values_locked

\* the values the entity holds under the given property ids
CurrentValues(s, entity_id, ids) ==
    [id \in ids |-> entity_by_id(s, entity_id).values[id]]

\* C20: update_entity_property_values called by a permitted actor with a map
\* in which every supplied value is the value the entity holds for that
\* property returns Ok, leaves storage (values and reference counters) as it
\* was and deposits no event.
C20_UpdateWithCurrentValuesIsNoOp ==
    \A entity_id \in DOMAIN EntityById, actor \in Callers :
        MayUpdateValues(Storage, actor, entity_id) =>
            \A ids \in SUBSET DOMAIN EntityById[entity_id].values :
                update_entity_property_values(Storage, actor, entity_id,
                        CurrentValues(Storage, entity_id, ids))
                    = Return(Storage, Ok)

\* Entity 1 holds a vector of one reference, which its target counts, and a
\* flag; the last call was an update that returned Ok, and the update with
\* both current values changes nothing.
C20_Witness ==
    /\ last_call = [op |-> "update_entity_property_values", err |-> Ok]
    /\ 1 \in DOMAIN EntityById
    /\ DOMAIN EntityById[1].values = {0, 1}
    /\ EntityById[1].values[0].vec = <<1>>
    /\ EntityById[1].reference_count = 1
    /\ MayUpdateValues(Storage, Lead, 1)
    /\ update_entity_property_values(Storage, Lead, 1, EntityById[1].values)
           = Return(Storage, Ok)

\* ------------------------------------------------------------------ C21

\* the storage with the nonce of the vector two higher and nothing else changed
WithNonceAdvancedByTwo(s, slot) ==
    [s EXCEPT !.EntityById[slot[1]].values[slot[2]].nonce = @ + 2]

\* C21: a successful insert_at_entity_property_vector(i, v, nonce n) followed
\* by a successful remove_at_entity_property_vector(i, nonce n + 1) on the same
\* vector property leaves the elements of the vector and the reference
\* counters of every entity as they were before the insert, and the nonce of
\* the vector two higher.
C21_InsertThenRemoveRestores ==
    \A actor \in Actors, slot \in VectorSlots(Storage), index_in_property_vec \in 0..2,
       property_value \in SingleValues(MaxPairEntityId) :
        LET nonce == EntityById[slot[1]].values[slot[2]].nonce
            inserted == insert_at_entity_property_vector(Storage, actor, slot[1], slot[2],
                            index_in_property_vec, property_value, nonce)
            removed == remove_at_entity_property_vector(inserted.s, actor, slot[1], slot[2],
                           index_in_property_vec, nonce + 1)
        IN  inserted.err = Ok /\ removed.err = Ok =>
                removed.s = WithNonceAdvancedByTwo(Storage, slot)

\* ------------------------------------------------------------------ C22

\* the ids of the schemas of the class
SchemaIds(class) == {schema_id \in 0..2 : schema_id < Len(class.schemas)}

\* add_schema_support_to_entity for the schema is refused for every caller,
\* entity of the class and map of values, with the error of an inactive schema
\* once the access checks pass, and changes nothing
SupportRefused(s, class_id, schema_id) ==
    \A actor \in Callers, entity_id \in DOMAIN s.EntityById,
       property_values \in PropertyValueMaps({0, 1}, VectorInputs(MaxVectorEntityId)) :
        LET r == add_schema_support_to_entity(s, actor, entity_id, schema_id,
                                              property_values)
        IN  s.EntityById[entity_id].class_id = class_id =>
                /\ r.err # Ok
                /\ r.s = s
                /\ r.events = <<>>
                /\ ensure_class_entity_and_access_level(s, entity_id, actor).err = Ok
                       => r.err = "ERROR_CLASS_SCHEMA_NOT_ACTIVE"

\* C22: while a schema is not active, add_schema_support_to_entity for it
\* fails (with the error of an inactive schema for a caller who passes the
\* access checks) and changes no entity; update_class_schema_status changes
\* no entity; and switching a schema off and on again leaves the storage as
\* it was with the schema active, so support for it can be added again.
C22_InactiveSchemaRefusesSupport ==
    \A class_id \in DOMAIN ClassById :
        \A schema_id \in SchemaIds(ClassById[class_id]) :
            LET off == update_class_schema_status(Storage, Lead, class_id, schema_id, FALSE)
                on == update_class_schema_status(off.s, Lead, class_id, schema_id, TRUE)
            IN  /\ off.err = Ok /\ on.err = Ok
                /\ off.s.EntityById = EntityById
                /\ ~class_by_id(off.s, class_id).schemas[schema_id + 1].is_active
                /\ SupportRefused(off.s, class_id, schema_id)
                /\ on.s = update_class_schema_status(Storage, Lead, class_id, schema_id,
                                                     TRUE).s
                /\ ClassById[class_id].schemas[schema_id + 1].is_active => on.s = Storage
                /\ ~ClassById[class_id].schemas[schema_id + 1].is_active
                       => SupportRefused(Storage, class_id, schema_id)

\* Schema 1 was switched off after entity 1 came to support schema 0: the
\* entity holds its vector, support for schema 1 is refused, and after the
\* schema is switched on the same call succeeds.
C22_Witness ==
    /\ last_call = [op |-> "update_class_schema_status", err |-> Ok]
    /\ ~ClassById[1].schemas[2].is_active
    /\ 1 \in DOMAIN EntityById
    /\ EntityById[1].supported_schemas = {0}
    /\ EntityById[1].values[0].vec = <<1>>
    /\ add_schema_support_to_entity(Storage, Lead, 1, 1, <<>>).err
           = "ERROR_CLASS_SCHEMA_NOT_ACTIVE"
    /\ add_schema_support_to_entity(
           update_class_schema_status(Storage, Lead, 1, 1, TRUE).s, Lead, 1, 1, <<>>).err
           = Ok

\* ------------------------------------------------------------------ C23

\* the call returned an error, the error of the class-level lock for a caller
\* who holds an access level, and left storage and events alone
RefusedAsLocked(s, r, access) ==
    /\ r.err # Ok
    /\ r.s = s
    /\ r.events = <<>>
    /\ access.err = Ok => r.err = "ERROR_ALL_PROP_WERE_LOCKED_ON_CLASS_LEVEL"

\* the entities of classes whose all_entity_property_values_locked is set
LockedEntities(s) ==
    {entity_id \in DOMAIN s.EntityById :
        class_by_id(s, s.EntityById[entity_id].class_id)
            .class_permissions.all_entity_property_values_locked}

\* C23: while all_entity_property_values_locked of a class is set,
\* update_entity_property_values on an entity of the class and clear, remove_at
\* and insert_at on a vector property of such an entity fail, with the error
\* of the class-level lock for every caller who holds an access level, and
\* change no property value and no reference counter.
C23_ClassLockRefusesWrites ==
    \A entity_id \in LockedEntities(Storage), actor \in Callers :
        LET access == ensure_class_entity_and_access_level(Storage, entity_id, actor)
        IN  /\ \A new_property_values \in
                      PropertyValueMaps({0, 1}, VectorInputs(MaxVectorEntityId)) :
                   RefusedAsLocked(Storage,
                       update_entity_property_values(Storage, actor, entity_id,
                                                     new_property_values), access)
            /\ \A slot \in {slot \in VectorSlots(Storage) : slot[1] = entity_id} :
                   /\ RefusedAsLocked(Storage,
                          clear_entity_property_vector(Storage, actor, entity_id, slot[2]),
                          access)
                   /\ \A index_in_property_vec \in 0..2, nonce \in 0..MaxVectorCounter :
                          /\ RefusedAsLocked(Storage,
                                 remove_at_entity_property_vector(Storage, actor, entity_id,
                                     slot[2], index_in_property_vec, nonce), access)
                          /\ \A property_value \in SingleValues(MaxVectorEntityId) :
                                 RefusedAsLocked(Storage,
                                     insert_at_entity_property_vector(Storage, actor,
                                         entity_id, slot[2], index_in_property_vec,
                                         property_value, nonce), access)

\* The class was locked while entity 1 holds a vector of one reference; its
\* controller and the curator of the maintainer group hold the two access
\* levels, and the insert of either is refused with the class-level error.
C23_Witness ==
    /\ last_call = [op |-> "update_class_permissions", err |-> Ok]
    /\ LockedEntities(Storage) = {1}
    /\ <<1, 0>> \in VectorSlots(Storage)
    /\ EntityById[1].values[0].vec = <<1>>
    /\ \E actor \in Actors :
          /\ ensure_class_entity_and_access_level(Storage, 1, actor)
                 = [err |-> Ok, level |-> "EntityController"]
          /\ insert_at_entity_property_vector(Storage, actor, 1, 0, 0, Reference(1),
                                              EntityById[1].values[0].nonce)
                 = Return(Storage, "ERROR_ALL_PROP_WERE_LOCKED_ON_CLASS_LEVEL")
    /\ ensure_class_entity_and_access_level(Storage, 1, Curator(1, 1))
           = [err |-> Ok, level |-> "EntityMaintainer"]
    /\ clear_entity_property_vector(Storage, Curator(1, 1), 1, 0)
           = Return(Storage, "ERROR_ALL_PROP_WERE_LOCKED_ON_CLASS_LEVEL")
    /\ update_entity_property_values(Storage, Curator(1, 1), 1, <<>>)
           = Return(Storage, "ERROR_ALL_PROP_WERE_LOCKED_ON_CLASS_LEVEL")

\* ------------------------------------------------------------------ C24

\* the outcomes of every extrinsic other than transaction
SingleOutcomes(s) == CuratorGroupOutcomes(s) \cup ClassOutcomes(s) \cup EntityOutcomes(s)

\* a call that changed the storage deposited exactly one event
ChangeEmitsOneEvent(s, r) == r.s # s => Len(r.events) = 1

\* a batch that changed the storage deposited an event, and TransactionCompleted
\* is the last event of a batch that returned Ok and no event of any other
BatchEmitsCompletedLast(s, r, actor) ==
    /\ r.s # s => r.events # <<>>
    /\ r.err = Ok => /\ r.events # <<>>
                     /\ r.events[Len(r.events)] = <<"TransactionCompleted", actor>>
    /\ \A i \in DOMAIN r.events :
           r.events[i][1] = "TransactionCompleted" => r.err = Ok /\ i = Len(r.events)

\* C24: every extrinsic other than transaction that changes stored state
\* deposits exactly one event, a transaction deposits TransactionCompleted only
\* after all of its operations succeeded, and no call changes state without
\* depositing an event.
C24_StateChangeEmitsEvent ==
    /\ \A r \in SingleOutcomes(Storage) : ChangeEmitsOneEvent(Storage, r)
    /\ \A actor \in Actors, operations \in Batches(MaxEntityId) :
           BatchEmitsCompletedLast(Storage, transaction(Storage, actor, operations), actor)

\* ------------------------------------------------------------------ C25

\* the arguments of create_class that pass every check but that of the number
\* of classes, as <<name, description, class_permissions, limits>>
ValidClassArguments(s) ==
    {args \in ClassNames \X ClassDescriptions
              \X {ClassPermissions(any_member, maintainers) :
                     any_member \in BOOLEAN,
                     maintainers \in SUBSET CuratorGroupIds(MaxCuratorGroupId)}
              \X ClassLimits :
        /\ ensure_entities_creation_limits_are_valid(args[4][1], args[4][2]) = Ok
        /\ ensure_class_name_is_valid(args[1]) = Ok
        /\ ensure_class_description_is_valid(args[2]) = Ok
        /\ ensure_class_permissions_are_valid(s, args[3]) = Ok}

\* C25: create_class called by the lead with a valid name, description,
\* permissions and creation limits succeeds when fewer than MaxNumberOfClasses
\* classes are stored, and fails with the error of the class limit, storing
\* nothing, when MaxNumberOfClasses classes or more are stored.
C25_CreateClassWithinLimit ==
    \A args \in ValidClassArguments(Storage) :
        LET r == create_class(Storage, Lead, args[1], args[2], args[3],
                              args[4][1], args[4][2])
        IN  IF Cardinality(DOMAIN ClassById) < MaxNumberOfClasses
            THEN r.err = Ok
            ELSE r = Return(Storage, "ERROR_CLASS_LIMIT_REACHED")

\* ------------------------------------------------------------------ C26

\* the arguments of add_class_schema pass every check but the two limits
SchemaArgumentsValid(s, class, existing_properties, new_properties) ==
    /\ ensure_non_empty_schema(existing_properties, new_properties) = Ok
    /\ ensure_new_properties_are_valid(
           {class.properties[i].name : i \in DOMAIN class.properties}, new_properties) = Ok
    /\ ensure_known_prop_indices(class, existing_properties) = Ok
    /\ ensure_known_reference_classes(s, new_properties) = Ok

\* C26: add_class_schema called by the lead with otherwise valid arguments
\* succeeds when the class holds fewer than NumberOfSchemasPerClass schemas and
\* fails with the error of the schemas limit, storing nothing, when it holds
\* NumberOfSchemasPerClass schemas or more.
C26_AddClassSchemaWithinSchemasLimit ==
    \A class_id \in DOMAIN ClassById, existing_properties \in ExistingPropertyLists,
       new_properties \in NewPropertyLists :
        LET class == ClassById[class_id]
            r == add_class_schema(Storage, Lead, class_id, existing_properties,
                                  new_properties)
        IN  (/\ SchemaArgumentsValid(Storage, class, existing_properties, new_properties)
             /\ ensure_properties_limit_not_reached(class, new_properties) = Ok)
            => IF Len(class.schemas) < NumberOfSchemasPerClass
               THEN r.err = Ok
               ELSE r = Return(Storage, "ERROR_CLASS_SCHEMAS_LIMIT_REACHED")

\* ------------------------------------------------------------------ C27

\* C27: add_class_schema with arguments that pass the other checks is accepted
\* when the properties of the class and the new properties together are at
\* most MaxNumberOfPropertiesPerClass and fails with the error of the
\* properties limit otherwise, and no class holds more than
\* MaxNumberOfPropertiesPerClass properties.
C27_AddClassSchemaWithinPropertiesLimit ==
    /\ \A class_id \in DOMAIN ClassById :
           Len(ClassById[class_id].properties) <= MaxNumberOfPropertiesPerClass
    /\ \A class_id \in DOMAIN ClassById, existing_properties \in ExistingPropertyLists,
          new_properties \in NewPropertyLists :
           LET class == ClassById[class_id]
               r == add_class_schema(Storage, Lead, class_id, existing_properties,
                                     new_properties)
           IN  (/\ SchemaArgumentsValid(Storage, class, existing_properties,
                                        new_properties)
                /\ ensure_schemas_limit_not_reached(class) = Ok)
               => IF Len(class.properties) + Len(new_properties)
                         <= MaxNumberOfPropertiesPerClass
                  THEN r.err = Ok
                  ELSE r = Return(Storage, "ERROR_CLASS_PROPERTIES_LIMIT_REACHED")

\* ------------------------------------------------------------------ C28

\* add_schema_support_to_entity for a schema the entity supports is refused for
\* every caller and map of values and changes nothing; the error is that of a
\* schema already added once the access check and the check of the schema's
\* status, which come first, pass
AlreadySupportedRefused ==
    \A entity_id \in DOMAIN EntityById, actor \in Callers,
       property_values \in PropertyValueMaps({0, 1}, VectorInputs(MaxVectorEntityId)) :
        \A schema_id \in EntityById[entity_id].supported_schemas :
            LET r == add_schema_support_to_entity(Storage, actor, entity_id, schema_id,
                                                  property_values)
                class == class_by_id(Storage, EntityById[entity_id].class_id)
            IN  /\ r.err # Ok
                /\ r.s = Storage
                /\ (/\ ensure_class_entity_and_access_level(Storage, entity_id, actor).err
                           = Ok
                     /\ ensure_schema_is_active(class, schema_id) = Ok)
                    => r.err = "ERROR_SCHEMA_ALREADY_ADDED_TO_ENTITY"

\* a step keeps the schemas of every entity that stays stored
SupportedSchemasKept ==
    \A entity_id \in DOMAIN EntityById \cap DOMAIN EntityById' :
        EntityById[entity_id].supported_schemas
            \subseteq EntityById'[entity_id].supported_schemas

\* C28: no step takes a schema id out of the supported_schemas of an entity,
\* and add_schema_support_to_entity for a schema id the entity supports fails,
\* with the error of a schema already added, and leaves the entity as it was.
C28_SupportedSchemasGrow == []AlreadySupportedRefused /\ [][SupportedSchemasKept]_vars

\* Entity 1 came to support schema 0 and then schema 1, and its controller's
\* call for either of them is refused as already added.
C28_Witness ==
    /\ last_call = [op |-> "add_schema_support_to_entity", err |-> Ok]
    /\ 1 \in DOMAIN EntityById
    /\ EntityById[1].supported_schemas = {0, 1}
    /\ \E actor \in Actors :
          \A schema_id \in {0, 1} :
              add_schema_support_to_entity(Storage, actor, 1, schema_id, <<>>)
                  = Return(Storage, "ERROR_SCHEMA_ALREADY_ADDED_TO_ENTITY")

\* ---- C29: update_entity_property_values, clear_entity_property_vector and
\* remove_at_entity_property_vector never subtract from a counter more than
\* it holds.

\* no counter of a stored entity is below zero; a counter below zero stands
\* for a u32 from which more was subtracted than it held
NoCounterBelowZero(s) ==
    \A e \in DOMAIN s.EntityById :
        /\ s.EntityById[e].reference_count >= 0
        /\ s.EntityById[e].inbound_same_owner_references_from_other_entities_count >= 0

\* the outcomes of the three operations that decrement counters, for every
\* entity, value, position and nonce the lead can supply
DecrementingOutcomes(s) ==
    {update_entity_property_values(s, Lead, entity_id, new_property_values) :
        entity_id \in EntityIds(MaxPairEntityId),
        new_property_values \in PropertyValueMaps({0}, VectorValues(MaxPairEntityId))}
    \cup {clear_entity_property_vector(s, Lead, entity_id, 0) :
              entity_id \in EntityIds(MaxPairEntityId)}
    \cup {remove_at_entity_property_vector(s, Lead, entity_id, 0, index, nonce) :
              entity_id \in EntityIds(MaxPairEntityId), index \in 0..2,
              nonce \in 0..MaxVectorCounter}

\* C29: In every reachable state where no counter is below zero, each of
\* update_entity_property_values, clear_entity_property_vector and
\* remove_at_entity_property_vector leaves every reference_count and every
\* inbound_same_owner_references_from_other_entities_count at zero or above:
\* what it subtracted from a counter the counter held.
C29_DecrementsNeverUnderflow ==
    NoCounterBelowZero(Storage) =>
        \A r \in DecrementingOutcomes(Storage) : NoCounterBelowZero(r.s)

\* ---- C30: replacing a reference value changes each target's counters by
\* the occurrences in the new value minus the occurrences in the old one.

\* the vectors that hold references
ReferenceVectorSlots(s) ==
    {slot \in VectorSlots(s) : s.EntityById[slot[1]].values[slot[2]].t = "Reference"}

\* what a counter of the target changed by from s to the outcome r
CounterChange(s, r, target, same_owner) ==
    IF same_owner
    THEN entity_by_id(r.s, target).inbound_same_owner_references_from_other_entities_count
             - entity_by_id(s, target).inbound_same_owner_references_from_other_entities_count
    ELSE entity_by_id(r.s, target).reference_count - entity_by_id(s, target).reference_count

\* the counters of every target changed by the difference of its occurrences
\* in the two values; inbound_same_owner only where the property has
\* same_controller set
CountersFollowValues(s, r, slot, new_value) ==
    LET old_ids == get_involved_entities(s.EntityById[slot[1]].values[slot[2]])
        new_ids == get_involved_entities(new_value)
        class == class_by_id(s, s.EntityById[slot[1]].class_id)
        same_controller == class.properties[slot[2] + 1].prop_type.same_controller
    IN \A target \in EntityIds(MaxPairEntityId) :
           LET difference == Occurrences(new_ids, target) - Occurrences(old_ids, target)
           IN /\ CounterChange(s, r, target, FALSE) = difference
              /\ CounterChange(s, r, target, TRUE)
                     = IF same_controller THEN difference ELSE 0

\* C30: In every reachable state, for every vector of references an entity
\* holds and every vector of references the lead supplies in its place, of the
\* same or of another length, an update_entity_property_values that returns Ok
\* changes each target's reference_count, and its
\* inbound_same_owner_references_from_other_entities_count when the property
\* has same_controller set, by exactly the number of occurrences of the target
\* in the new value minus the number in the old value.
C30_UpdateCountsOccurrences ==
    \A slot \in ReferenceVectorSlots(Storage), new_value \in VectorValues(MaxPairEntityId) :
        LET r == update_entity_property_values(Storage, Lead, slot[1],
                                               (slot[2] :> new_value))
        IN r.err = Ok => CountersFollowValues(Storage, r, slot, new_value)

\* ---- C31: replacing a reference vector by one of the same length counts
\* only the positions whose ids differ.

\* how often each id stands in seq at one of the positions, as the map from
\* the ids that stand there at least once
CountedAt(seq, positions) ==
    [x \in {seq[i] : i \in positions} |->
        Cardinality({i \in positions : seq[i] = x})]

\* the maps perform_entity_property_value_update fills when new_value takes
\* the place of the vector in the slot, starting from empty maps
StagedReplacement(s, slot, new_value) ==
    LET entity == s.EntityById[slot[1]]
    IN  perform_entity_property_value_update(s, class_by_id(s, entity.class_id), entity,
            slot[2], ensure_class_entity_and_access_level(s, slot[1], Lead).level,
            new_value,
            Staged(Ok, entity.values, DefaultEntitiesRc, DefaultEntitiesRc, FALSE))

\* the decrement map holds the old ids of the positions that differ and the
\* increment map the new ids of those positions, each with its number of such
\* positions, in the map the same_controller flag selects; the other map is
\* empty
OnlyChangedPositionsCounted(s, slot, new_value) ==
    LET old_ids == get_involved_entities(s.EntityById[slot[1]].values[slot[2]])
        new_ids == get_involved_entities(new_value)
        changed == {i \in DOMAIN old_ids : old_ids[i] # new_ids[i]}
        class == class_by_id(s, s.EntityById[slot[1]].class_id)
        same_controller == class.properties[slot[2] + 1].prop_type.same_controller
        staged == StagedReplacement(s, slot, new_value)
        selected(entities_rc) ==
            IF same_controller THEN entities_rc.inbound_same_owner_entity_rcs
            ELSE entities_rc.inbound_entity_rcs
        other(entities_rc) ==
            IF same_controller THEN entities_rc.inbound_entity_rcs
            ELSE entities_rc.inbound_same_owner_entity_rcs
    IN  staged.err = Ok =>
            /\ selected(staged.to_decrement) = CountedAt(old_ids, changed)
            /\ selected(staged.to_increment) = CountedAt(new_ids, changed)
            /\ other(staged.to_decrement) = << >>
            /\ other(staged.to_increment) = << >>

\* the vectors of references the lead supplies that have as many elements as
\* the vector in the slot and differ from it
SameLengthReplacements(s, slot) ==
    {new_value \in VectorValues(MaxPairEntityId) :
        /\ Len(new_value.vec) = Len(s.EntityById[slot[1]].values[slot[2]].vec)
        /\ new_value.vec # s.EntityById[slot[1]].values[slot[2]].vec}

\* C31: In every reachable state, when a vector of references an entity holds
\* is replaced by another of the same length, the decrement map holds exactly
\* the old ids of the positions whose ids differ and the increment map exactly
\* the new ids of those positions; an id that stands at the same position in
\* both vectors enters neither map through that position.
C31_SamePositionNotCounted ==
    \A slot \in ReferenceVectorSlots(Storage) :
        \A new_value \in SameLengthReplacements(Storage, slot) :
            OnlyChangedPositionsCounted(Storage, slot, new_value)

\* entity 1 holds [2, 1], both counted; replacing it by [2, 2] decrements
\* entity 1 once, increments entity 2 once and leaves position one alone
C31_Witness ==
    /\ DOMAIN EntityById = {1, 2}
    /\ <<1, 0>> \in ReferenceVectorSlots(Storage)
    /\ EntityById[1].values[0].vec = <<2, 1>>
    /\ EntityById[1].reference_count = 1
    /\ EntityById[2].reference_count = 1
    /\ LET new_value == ReferenceVec(<<2, 2>>, 0)
           staged == StagedReplacement(Storage, <<1, 0>>, new_value)
           r == update_entity_property_values(Storage, Lead, 1, (0 :> new_value))
       IN  /\ staged.err = Ok
           /\ staged.to_decrement.inbound_same_owner_entity_rcs = (1 :> 1)
           /\ staged.to_increment.inbound_same_owner_entity_rcs = (2 :> 1)
           /\ r.err = Ok
           /\ r.s.EntityById[1].reference_count = 0
           /\ r.s.EntityById[2].reference_count = 2

\* ---- C32: the walk of transfer_entity_ownership ends, also over cycles of
\* same_controller references, and recurses into each entity at most once.

\* Recursions a walk is followed for: more than the entity ids a run issues.
MaxExpansions == 5

\* the test of the visited set, left out
newly_found_always(entity_id, entities) == TRUE

\* `if !entities.contains(&entity_id)`
newly_found(entity_id, entities) == entity_id \notin entities

\* the walk so far: the visited set, the entities recursed into in order, and
\* whether the walk was cut off at MaxExpansions recursions
Walk(entities, expanded, cut_off) ==
    [entities |-> entities, expanded |-> expanded, cut_off |-> cut_off]

RECURSIVE expand_entity_values(_, _, _, _, _), expand_entity_ids(_, _, _, _)

\* retrieve_all_entities_to_perform_ownership_transfer, recording the walk
expand_entity_values(s, class, entity, ids, walk) ==
    IF ids = <<>> \/ walk.cut_off THEN walk
    ELSE LET id == Head(ids)
             class_prop == class_property(class, id)
             class_id == class_prop.prop_type.class_id
             new_class == IF class_id # entity.class_id THEN class_by_id(s, class_id)
                          ELSE class
             found == IF has_property(class, id)
                         /\ same_controller_status(class_prop.prop_type)
                      THEN expand_entity_ids(s, new_class,
                               get_involved_entities(entity.values[id]), walk)
                      ELSE walk
         IN  expand_entity_values(s, class, entity, Tail(ids), found)

\* get_all_same_owner_entities, recording the walk
expand_entity_ids(s, class, entity_ids, walk) ==
    IF entity_ids = <<>> \/ walk.cut_off THEN walk
    ELSE LET entity_id == Head(entity_ids)
             new_entity == entity_by_id(s, entity_id)
             found == IF ~newly_found(entity_id, walk.entities) THEN walk
                      ELSE IF Len(walk.expanded) >= MaxExpansions
                           THEN [walk EXCEPT !.cut_off = TRUE]
                      ELSE expand_entity_values(s, class, new_entity,
                               Ascending(DOMAIN new_entity.values),
                               Walk(walk.entities \cup {entity_id},
                                    Append(walk.expanded, entity_id), FALSE))
         IN  expand_entity_ids(s, class, Tail(entity_ids), found)

\* the walk transfer_entity_ownership starts at the root
WalkFrom(s, entity_id) ==
    LET entity == entity_by_id(s, entity_id)
    IN  expand_entity_values(s, class_by_id(s, entity.class_id), entity,
            Ascending(DOMAIN entity.values), Walk({entity_id}, <<entity_id>>, FALSE))

\* the walk from the root ended on its own, recursed into no entity twice and
\* into no more entities than it visited, and visited what the transfer uses
WalkEndsWithoutRepeat(s, entity_id) ==
    LET walk == WalkFrom(s, entity_id)
        entity == entity_by_id(s, entity_id)
    IN  /\ ~walk.cut_off
        /\ \A i, j \in DOMAIN walk.expanded :
               walk.expanded[i] = walk.expanded[j] => i = j
        /\ Range(walk.expanded) = walk.entities
        /\ Len(walk.expanded) <= Cardinality(walk.entities)
        /\ walk.entities = retrieve_all_entities_to_perform_ownership_transfer(
                               s, class_by_id(s, entity.class_id), entity, {entity_id})

\* the entities an entity refers to in same_controller properties
SameOwnerTargetsOf(s, entity_id) ==
    LET entity == entity_by_id(s, entity_id)
        class == class_by_id(s, entity.class_id)
    IN  UNION {Range(get_involved_entities(entity.values[id])) :
                  id \in {id \in DOMAIN entity.values :
                             /\ has_property(class, id)
                             /\ same_controller_status(class_property(class, id).prop_type)}}

\* C32: In every reachable state the walk of transfer_entity_ownership from
\* any stored root ends without being cut off, whether or not same_controller
\* references form cycles, and recurses into each entity at most once: the
\* entities recursed into are pairwise distinct and are exactly the visited
\* set.
C32_TransferWalkTerminates ==
    \A entity_id \in DOMAIN EntityById : WalkEndsWithoutRepeat(Storage, entity_id)

\* two entities refer to each other in same_controller properties, a transfer
\* from the first has returned Ok, and the walk from it recursed into both once
C32_Witness ==
    /\ last_call = [op |-> "transfer_entity_ownership", err |-> Ok]
    /\ DOMAIN EntityById = {1, 2}
    /\ SameOwnerTargetsOf(Storage, 1) = {2}
    /\ SameOwnerTargetsOf(Storage, 2) = {1}
    /\ EntityById[1].controller = EntityById[2].controller
    /\ WalkFrom(Storage, 1) = Walk({1, 2}, <<1, 2>>, FALSE)
    /\ \E new_controller \in Controllers :
           transfer_entity_ownership(Storage, Lead, 1, new_controller).err = Ok

\* ---- C33: no operation changes the controller of an entity whose
\* same-owner counter is above zero.

\* the stored entities whose controller the step changes
ControllerChanged ==
    {e \in DOMAIN EntityById \cap DOMAIN EntityById' :
        EntityById'[e].controller # EntityById[e].controller}

\* the step changes the controller of no entity that same-owner references
\* point at
ReferencedControllersKept ==
    \A e \in ControllerChanged :
        EntityById[e].inbound_same_owner_references_from_other_entities_count <= 0

\* C33 as stated: no step changes the controller of a stored entity whose
\* inbound_same_owner_references_from_other_entities_count is above zero.
C33_ReferencedControllerNeverChanges == [][ReferencedControllersKept]_vars

\* the step is a transfer from a root whose same-owner counter is zero, and
\* the entities whose controller changes are visited by the walk from that
\* root and get the controller the root gets
ChangedByTransferFromFreeRoot ==
    ControllerChanged # {} =>
        /\ last_call'.op = "transfer_entity_ownership"
        /\ \E root \in DOMAIN EntityById :
              /\ EntityById[root].inbound_same_owner_references_from_other_entities_count = 0
              /\ ControllerChanged \subseteq WalkFrom(Storage, root).entities
              /\ \A e \in WalkFrom(Storage, root).entities \cap DOMAIN EntityById :
                     EntityById'[e].controller = EntityById'[root].controller

\* C33 (amended): a step changes controllers only as a
\* transfer_entity_ownership from a root whose same-owner counter is zero; an
\* entity whose counter is above zero changes controller only as an entity the
\* walk from such a root visits, together with the root; and a transfer named
\* at a root whose counter is not zero is refused with storage unchanged.
C33_ControllerChangesWithFreeRoot ==
    /\ [][ChangedByTransferFromFreeRoot]_vars
    /\ [](\A origin \in Actors, entity_id \in DOMAIN EntityById,
             new_controller \in Controllers :
               EntityById[entity_id].inbound_same_owner_references_from_other_entities_count # 0
                   => transfer_entity_ownership(Storage, origin, entity_id,
                                                new_controller).s = Storage)

\* the lead created two entities, the first refers to the second in a
\* same_controller property and the reference is counted, and a transfer has
\* moved both to the member
C33_Witness ==
    /\ last_call = [op |-> "transfer_entity_ownership", err |-> Ok]
    /\ \A key \in DOMAIN EntityCreationVouchers : key[2] = Lead
    /\ DOMAIN EntityById = {1, 2}
    /\ SameOwnerTargetsOf(Storage, 1) = {2}
    /\ EntityById[1].inbound_same_owner_references_from_other_entities_count = 0
    /\ EntityById[2].inbound_same_owner_references_from_other_entities_count = 1
    /\ EntityById[1].controller = Member(1)
    /\ EntityById[2].controller = Member(1)

\* ---- C34: every entity id held in a reference value of a stored entity is
\* the id of a stored entity.

\* the entity ids the property values of the stored entity hold
ReferencedBy(s, x) ==
    UNION {Range(get_involved_entities(s.EntityById[x].values[id])) :
              id \in DOMAIN s.EntityById[x].values}

\* C34: In every reachable state, every entity id held in a reference property
\* value, single or element of a vector, of a stored entity is a key of
\* EntityById.
C34_NoDanglingReference ==
    \A x \in DOMAIN EntityById : ReferencedBy(Storage, x) \subseteq DOMAIN EntityById

\* ---- C35: a curator group's classes_under_maintenance is the number of
\* classes that hold it as a maintainer, and is never taken below zero.

\* the group's counter is the number of the classes whose maintainers hold it
MaintenanceCounted(s, curator_group_id) ==
    s.CuratorGroupById[curator_group_id].classes_under_maintenance
        = Cardinality(MaintainedBy(s, curator_group_id))

\* C35: In every reachable state, for every stored curator group g,
\* g.classes_under_maintenance equals the number of classes whose maintainers
\* set contains g, and no remove_maintainer_from_class leaves the counter of a
\* stored group below zero.
C35_MaintenanceCounterMatchesClasses ==
    /\ \A g \in DOMAIN CuratorGroupById : MaintenanceCounted(Storage, g)
    /\ \A class_id \in DOMAIN ClassById, g \in DOMAIN CuratorGroupById :
           LET r == remove_maintainer_from_class(Storage, Lead, class_id, g)
           IN  \A h \in DOMAIN r.s.CuratorGroupById :
                   r.s.CuratorGroupById[h].classes_under_maintenance >= 0

\* ---- C36: insert_at_entity_property_vector changes reference counters only
\* when the value is inserted into a vector.

\* the two reference counters of every entity of the storage, stored or not
ReferenceCounters(s) ==
    [e \in EntityIds(MaxPairEntityId) |->
        <<entity_by_id(s, e).reference_count,
          entity_by_id(s, e).inbound_same_owner_references_from_other_entities_count>>]

\* the entity holds no vector under the property id: the id is absent from its
\* values or the value under it is a single value
HoldsNoVector(s, entity_id, in_class_schema_property_id) ==
    <<entity_id, in_class_schema_property_id>> \notin VectorSlots(s)

\* C36: In every reachable state, an insert_at_entity_property_vector of the
\* lead that names a stored entity and a property id under which the entity
\* holds no vector leaves the reference counters of every entity as they were,
\* whatever value, index and nonce it is given.
C36_InsertAtWithoutVectorKeepsCounters ==
    \A entity_id \in DOMAIN EntityById, index \in 0..2,
       property_value \in SingleValues(MaxPairEntityId), nonce \in 0..MaxVectorCounter :
        HoldsNoVector(Storage, entity_id, 0) =>
            ReferenceCounters(insert_at_entity_property_vector(Storage, Lead,
                entity_id, 0, index, property_value, nonce).s)
                = ReferenceCounters(Storage)

\* ---- C37: a successful transfer_entity_ownership changes the controller of
\* the root and of the entities reachable from it, and nothing else.

\* the entity with its controller replaced for the entities of the set
WithController(entity, moved, new_controller) ==
    IF moved THEN [entity EXCEPT !.controller = new_controller] ELSE entity

\* the outcome differs from s in the controllers of the entities reachable
\* from the root only: every entity id holds what it held with at most the
\* controller replaced, and classes, vouchers, curator groups and the id
\* counters are as they were
OnlyControllersOfReachableChanged(s, r, root, new_controller) ==
    LET reachable == ReachableFrom(s, {root}, {})
    IN  /\ \A e \in DOMAIN s.EntityById \cup DOMAIN r.s.EntityById :
               entity_by_id(r.s, e)
                   = WithController(entity_by_id(s, e), e \in reachable, new_controller)
        /\ r.s.ClassById = s.ClassById
        /\ r.s.EntityCreationVouchers = s.EntityCreationVouchers
        /\ r.s.CuratorGroupById = s.CuratorGroupById
        /\ r.s.NextEntityId = s.NextEntityId
        /\ r.s.NextClassId = s.NextClassId
        /\ r.s.NextCuratorGroupId = s.NextCuratorGroupId

ReferencesHeld(s, x, target) ==
    Cardinality({slot \in ReferenceSlots(s, target) : slot[1] = x})

SameControllerReferencesHeld(s, x, target) ==
    Cardinality({slot \in SameControllerSlots(s, target) : slot[1] = x})

\* every other stored entity has its counters lowered by the references the
\* removed entity held to it
TargetsReleased(s, r, entity_id) ==
    \A target \in DOMAIN s.EntityById \ {entity_id} :
        /\ entity_by_id(r.s, target).reference_count
               = s.EntityById[target].reference_count
                     - ReferencesHeld(s, entity_id, target)
        /\ entity_by_id(r.s, target).inbound_same_owner_references_from_other_entities_count
               = s.EntityById[target].inbound_same_owner_references_from_other_entities_count
                     - SameControllerReferencesHeld(s, entity_id, target)

\* C38: In every reachable state, a remove_entity(E) that returns Ok leaves the
\* reference_count of every entity E referred to lower by the number of
\* references E held to it, and its
\* inbound_same_owner_references_from_other_entities_count lower by the number
\* of those held in same_controller properties.
C38_RemoveEntityReleasesTargets ==
    \A actor \in Actors, entity_id \in DOMAIN EntityById :
        LET r == remove_entity(Storage, actor, entity_id)
        IN  r.err = Ok => TargetsReleased(Storage, r, entity_id)

\* ---- C39: the key set of EntityById changes only through create_entity and
\* remove_entity.

\* a step changes the keys of EntityById only as create_entity adding the id
\* NextEntityId held, or as remove_entity taking one id out
KeysChangeByCreateOrRemove ==
    DOMAIN EntityById' # DOMAIN EntityById =>
        \/ /\ last_call'.op = "create_entity"
           /\ DOMAIN EntityById' = DOMAIN EntityById \cup {NextEntityId}
        \/ /\ last_call'.op = "remove_entity"
           /\ \E entity_id \in DOMAIN EntityById :
                  DOMAIN EntityById' = DOMAIN EntityById \ {entity_id}

\* C39: No step changes the key set of EntityById except a create_entity,
\* which adds exactly the id held by NextEntityId, and a remove_entity, which
\* removes exactly one id: no other operation stores an entity under an id
\* that was not present before.
C39_EntityKeysChangeByCreateAndRemove == [][KeysChangeByCreateOrRemove]_vars

\* ---- C40: a reference written over a value that holds no reference is
\* counted.

\* the property ids under which the entity holds a value without references
PlainSlotsOf(s, entity_id) ==
    {id \in DOMAIN s.EntityById[entity_id].values :
        ~has_involved_entities(s.EntityById[entity_id].values[id])}

\* the counters of every target rose by the references the new value holds to
\* it; inbound_same_owner only where the property has same_controller set
WrittenReferencesCounted(s, r, entity_id, id, new_value) ==
    LET new_ids == get_involved_entities(new_value)
        class == class_by_id(s, s.EntityById[entity_id].class_id)
        same_controller == same_controller_status(class_property(class, id).prop_type)
    IN  \A target \in Range(new_ids) :
            /\ entity_by_id(r.s, target).reference_count
                   = entity_by_id(s, target).reference_count + Occurrences(new_ids, target)
            /\ entity_by_id(r.s, target).inbound_same_owner_references_from_other_entities_count
                   = entity_by_id(s, target).inbound_same_owner_references_from_other_entities_count
                         + IF same_controller THEN Occurrences(new_ids, target) ELSE 0

\* C40: In every reachable state, an update_entity_property_values that
\* returns Ok and writes a reference into a property whose current value holds
\* no reference, such as the default value of a property that is not required,
\* raises the reference_count of the referenced entity by the number of
\* references written, and its
\* inbound_same_owner_references_from_other_entities_count as well when the
\* property has same_controller set.
C40_ReferenceOverPlainValueCounted ==
    \A actor \in Actors, entity_id \in DOMAIN EntityById :
        \A id \in PlainSlotsOf(Storage, entity_id), target \in EntityIds(MaxEntityId) :
            LET r == update_entity_property_values(Storage, actor, entity_id,
                                                   (id :> Reference(target)))
            IN  r.err = Ok =>
                    WrittenReferencesCounted(Storage, r, entity_id, id, Reference(target))

====
